---- MODULE Spec2Model ----
(***************************************************************************)
(* Model of the differential verification engine of tingly-box             *)
(* (src/tests/differential.py, src/tests/client.py, src/tests/runner.py).  *)
(*                                                                         *)
(* Text is a sequence of characters.  A decoded JSON value is a record     *)
(* [t, v]: t is the JSON type, v the payload.  A float of the code is an   *)
(* exact fraction <<n, d>> in lowest terms.                                *)
(***************************************************************************)
EXTENDS Integers, Sequences, FiniteSets, TLC

\* Longest content text of a response body.
MaxLen == 2

\* Most providers handed to one multi-provider comparison.
MaxProviders == 3

Chars == {"a", "b"}

RECURSIVE TextsUpTo(_)
TextsUpTo(n) ==
    IF n = 0 THEN {<<>>}
    ELSE LET shorter == TextsUpTo(n - 1)
         IN shorter \cup {Append(s, c) : s \in {x \in shorter : Len(x) = n - 1}, c \in Chars}

Texts == TextsUpTo(MaxLen)

Min(a, b) == IF a < b THEN a ELSE b
Max(a, b) == IF a > b THEN a ELSE b
Abs(a) == IF a < 0 THEN -a ELSE a

SetMax(S) == CHOOSE x \in S : \A y \in S : y <= x
SetMin(S) == CHOOSE x \in S : \A y \in S : x <= y

---------------------------------------------------------------------------
(* Floats as exact fractions.                                              *)

RECURSIVE Gcd(_, _)
Gcd(a, b) == IF b = 0 THEN a ELSE Gcd(b, a % b)

Frac(n, d) == LET g == Gcd(Abs(n), d) IN <<n \div g, d \div g>>

FracAdd(x, y) == Frac(x[1] * y[2] + y[1] * x[2], x[2] * y[2])
FracSub(x, y) == Frac(x[1] * y[2] - y[1] * x[2], x[2] * y[2])
FracLess(x, y) == x[1] * y[2] < y[1] * x[2]
FracGeq(x, y) == ~FracLess(x, y)

RECURSIVE FracSum(_)
FracSum(xs) == IF xs = <<>> THEN <<0, 1>> ELSE FracAdd(Head(xs), FracSum(Tail(xs)))

\* statistics.mean of a non-empty list
Mean(xs) == LET s == FracSum(xs) IN Frac(s[1], s[2] * Len(xs))

---------------------------------------------------------------------------
(* difflib.SequenceMatcher(None, a, b).ratio(), as the code calls it: no    *)
(* junk, and the texts are far shorter than the 200 elements at which       *)
(* the popularity heuristic starts.  Positions are 0-based, windows         *)
(* half-open, as in difflib.                                                *)

RECURSIVE RunLen(_, _, _, _, _, _)
RunLen(a, b, i, j, ahi, bhi) ==
    IF i < ahi /\ j < bhi /\ a[i + 1] = b[j + 1]
    THEN 1 + RunLen(a, b, i + 1, j + 1, ahi, bhi)
    ELSE 0

\* <<i, j, k>>: the longest block a[i:i+k] = b[j:j+k] of the window, the one
\* starting earliest in a, and of those the one starting earliest in b.
find_longest_match(a, b, alo, ahi, blo, bhi) ==
    LET starts == (alo .. (ahi - 1)) \X (blo .. (bhi - 1))
        best == IF starts = {} THEN 0
                ELSE SetMax({RunLen(a, b, s[1], s[2], ahi, bhi) : s \in starts})
    IN IF best = 0 THEN <<alo, blo, 0>>
       ELSE LET bests == {s \in starts : RunLen(a, b, s[1], s[2], ahi, bhi) = best}
                besti == SetMin({s[1] : s \in bests})
                bestj == SetMin({s[2] : s \in {x \in bests : x[1] = besti}})
            IN <<besti, bestj, best>>

RECURSIVE MatchedSize(_, _, _, _, _, _)

\* The summed size of get_matching_blocks() over the window whose longest
\* block is m: m, and the blocks to its left and to its right.
MatchedAround(a, b, m, alo, ahi, blo, bhi) ==
    IF m[3] = 0 THEN 0
    ELSE m[3]
         + (IF alo < m[1] /\ blo < m[2] THEN MatchedSize(a, b, alo, m[1], blo, m[2]) ELSE 0)
         + (IF m[1] + m[3] < ahi /\ m[2] + m[3] < bhi
            THEN MatchedSize(a, b, m[1] + m[3], ahi, m[2] + m[3], bhi) ELSE 0)

\* The summed size of get_matching_blocks() over the window.
MatchedSize(a, b, alo, ahi, blo, bhi) ==
    MatchedAround(a, b, find_longest_match(a, b, alo, ahi, blo, bhi), alo, ahi, blo, bhi)

ratio(a, b) ==
    IF Len(a) + Len(b) = 0 THEN <<1, 1>>
    ELSE Frac(2 * MatchedSize(a, b, 0, Len(a), 0, Len(b)), Len(a) + Len(b))

_calculate_similarity_EmptyIsZero(text1, text2) ==
    IF text1 = <<>> \/ text2 = <<>> THEN <<0, 1>> ELSE ratio(text1, text2)

_calculate_similarity(text1, text2) ==
    IF text1 = <<>> /\ text2 = <<>> THEN <<1, 1>>
    ELSE IF text1 = <<>> \/ text2 = <<>> THEN <<0, 1>>
    ELSE ratio(text1, text2)

_count_tokens_estimate_Floor(text) == Len(text) \div 4

_count_tokens_estimate(text) == Max(1, Len(text) \div 4)

---------------------------------------------------------------------------
(* Decoded JSON.  A map's payload is a function from key names to values,  *)
(* a list's a sequence of values, a string's a text.                       *)

JNull == [t |-> "null", v |-> 0]
JStr(s) == [t |-> "str", v |-> s]
JInt(n) == [t |-> "int", v |-> n]
JList(xs) == [t |-> "list", v |-> xs]
JMap(m) == [t |-> "map", v |-> m]

EmptyText == JStr(<<>>)
EmptyMap == JMap(<<>>)
EmptyList == JList(<<>>)

\* true and false; a number with a fraction, as <<numerator, denominator>>
JBool(b) == [t |-> "bool", v |-> b]
JFloat(f) == [t |-> "float", v |-> f]

\* Python truth value: None, "", 0, [] and {} are false.
Truthy(j) ==
    CASE j.t = "null" -> FALSE
      [] j.t = "str" -> j.v # <<>>
      [] j.t = "int" -> j.v # 0
      [] j.t = "list" -> j.v # <<>>
      [] j.t = "map" -> DOMAIN j.v # {}
      [] j.t = "bool" -> j.v
      [] j.t = "float" -> j.v[1] # 0

\* `x or default`
OrElse(j, default) == IF Truthy(j) THEN j ELSE default

\* `key in d` and d.get(key, default) of a dict d
Has(d, key) == key \in DOMAIN d.v
Get(d, key, default) == IF Has(d, key) THEN d.v[key] ELSE default

\* The result of a call that raised, and of one that returned value.
Raised == [raised |-> TRUE]
Returned(value) == [raised |-> FALSE, value |-> value]

TextT == <<"text">>

\* j == s, for a string s
IsText(j, s) == j.t = "str" /\ j.v = s

RECURSIVE Concat(_)
Concat(parts) == IF parts = <<>> THEN <<>> ELSE Head(parts) \o Concat(Tail(parts))

\* "".join(parts): a TypeError unless every part is a string.
Join(parts) ==
    IF \E i \in 1..Len(parts) : parts[i].t # "str" THEN Raised
    ELSE [raised |-> FALSE, text |-> Concat([i \in 1..Len(parts) |-> parts[i].v])]

\* The keys of a map, as strings, in some order.
RECURSIVE KeysOf(_)
KeysOf(keys) ==
    IF keys = {} THEN <<>>
    ELSE LET k == CHOOSE x \in keys : TRUE
         IN <<JStr(<<k>>)>> \o KeysOf(keys \ {k})

\* The items a for loop over j visits: the elements of a list, the pieces
\* of a string, the keys of a map; None and a number are not iterable.
Iter(j) ==
    CASE j.t = "list" -> [raised |-> FALSE, items |-> j.v]
      [] j.t = "str" -> [raised |-> FALSE, items |-> [i \in 1..Len(j.v) |-> JStr(<<j.v[i]>>)]]
      [] j.t = "map" -> [raised |-> FALSE, items |-> KeysOf(DOMAIN j.v)]
      [] OTHER -> Raised

\* `key in j` where j is a map (a key), a string (a piece) or a list (an
\* element); of None and of a number it is a TypeError, see NoMembership.
In(key, j) ==
    CASE j.t = "map" -> key \in DOMAIN j.v
      [] j.t = "str" -> \E i \in 1..Len(j.v) : j.v[i] = key
      [] j.t = "list" -> \E i \in 1..Len(j.v) : IsText(j.v[i], <<key>>)
      [] OTHER -> FALSE

NoMembership(j) == j.t \in {"null", "int", "bool", "float"}

\* The parts a loop appended, and the parts of several loops in turn.
Parts(ps) == [raised |-> FALSE, parts |-> ps]

Gather(rs) ==
    IF \E i \in 1..Len(rs) : rs[i].raised THEN Raised
    ELSE Parts(Concat([i \in 1..Len(rs) |-> rs[i].parts]))

---------------------------------------------------------------------------
(* DifferentialTestSuite._normalize_response_style                          *)

RECURSIVE TextBlocks_AnyType(_)
TextBlocks_AnyType(blocks) ==
    IF blocks = <<>> THEN [raised |-> FALSE, parts |-> <<>>]
    ELSE IF Head(blocks).t # "map" \/ TextBlocks_AnyType(Tail(blocks)).raised THEN Raised
    ELSE [raised |-> FALSE,
          parts |-> <<Get(Head(blocks), "text", EmptyText)>>
                    \o TextBlocks_AnyType(Tail(blocks)).parts]

\* [b.get("text", "") for b in blocks if b.get("type") == "text"]:
\* an AttributeError at the first block that is not a map.
RECURSIVE TextBlocks(_)
TextBlocks(blocks) ==
    IF blocks = <<>> THEN [raised |-> FALSE, parts |-> <<>>]
    ELSE LET b == Head(blocks)
             rest == TextBlocks(Tail(blocks))
         IN IF b.t # "map" \/ rest.raised THEN Raised
            ELSE IF IsText(Get(b, "type", JNull), TextT)
                 THEN [raised |-> FALSE, parts |-> <<Get(b, "text", EmptyText)>> \o rest.parts]
                 ELSE rest

\* The openai branch up to usage: <<content, role, finish_reason>>.
OpenAIChoice(response) ==
    LET choices == OrElse(Get(response, "choices", EmptyList), EmptyList)
    IN IF ~Truthy(choices)
       THEN [raised |-> FALSE, content |-> EmptyText, role |-> EmptyText,
             finish_reason |-> EmptyText]
       ELSE IF choices.t # "list" THEN Raised      \* choices[0] of a map or a number, .get of a character
       ELSE LET choice == choices.v[1]
            IN IF choice.t # "map" THEN Raised
               ELSE LET message == OrElse(Get(choice, "message", JNull), EmptyMap)
                    IN IF message.t # "map" THEN Raised
                       ELSE [raised |-> FALSE,
                             content |-> OrElse(Get(message, "content", EmptyText), EmptyText),
                             role |-> OrElse(Get(message, "role", EmptyText), EmptyText),
                             finish_reason |-> OrElse(Get(choice, "finish_reason", EmptyText),
                                                      EmptyText)]

AnthropicContent(response) ==
    LET blocks == OrElse(Get(response, "content", EmptyList), EmptyList)
        it == Iter(blocks)
    IN IF it.raised THEN Raised
       ELSE LET tb == TextBlocks(it.items)
            IN IF tb.raised THEN Raised ELSE Join(tb.parts)

_normalize_response_style(style, response) ==
    LET usage == OrElse(Get(response, "usage", JNull), EmptyMap)
        model == Get(response, "model", EmptyText)
    IN IF style = "openai"
       THEN LET c == OpenAIChoice(response)
            IN IF c.raised \/ usage.t # "map" THEN Raised
               ELSE [raised |-> FALSE,
                     model |-> model,
                     role |-> c.role,
                     finish_reason |-> c.finish_reason,
                     input_tokens |-> Get(usage, "prompt_tokens", JNull),
                     output_tokens |-> Get(usage, "completion_tokens", JNull),
                     content |-> c.content]
       ELSE LET c == AnthropicContent(response)
            IN IF c.raised \/ usage.t # "map" THEN Raised
               ELSE [raised |-> FALSE,
                     model |-> model,
                     role |-> OrElse(Get(response, "role", EmptyText), EmptyText),
                     finish_reason |-> OrElse(Get(response, "stop_reason", EmptyText), EmptyText),
                     input_tokens |-> Get(usage, "input_tokens", JNull),
                     output_tokens |-> Get(usage, "output_tokens", JNull),
                     content |-> JStr(c.text)]

\* The keys of a normalized record, and those whose value is None.
CanonicalFields == {"model", "role", "finish_reason", "input_tokens", "output_tokens", "content"}
NullFields(data) == {k \in CanonicalFields : data[k].t = "null"}

---------------------------------------------------------------------------
(* DifferentialTestSuite._extract_content, _hash_response and               *)
(* _normalize_response: the content is found by the keys the body has.      *)

\* choice["message"].get("content", "") and choice["delta"].get(...):
\* only a map can be indexed by a key, only a map has get.
KeyedContent(choice, key) ==
    IF choice.t # "map" THEN Raised
    ELSE IF choice.v[key].t # "map" THEN Raised
    ELSE Parts(<<Get(choice.v[key], "content", EmptyText)>>)

\* Lines 158-162: the parts one choice contributes.
ChoiceParts(choice) ==
    IF NoMembership(choice) THEN Raised
    ELSE IF In("message", choice) THEN KeyedContent(choice, "message")
    ELSE IF In("delta", choice) THEN KeyedContent(choice, "delta")
    ELSE Parts(<<>>)

\* Lines 165-167: the parts one content block contributes.
BlockParts(block) ==
    IF block.t # "map" THEN Raised
    ELSE IF IsText(Get(block, "type", JNull), TextT)
    THEN Parts(<<Get(block, "text", EmptyText)>>)
    ELSE Parts(<<>>)

\* Lines 173-175: the parts one part of a candidate contributes.
PartTexts(part) ==
    IF NoMembership(part) THEN Raised
    ELSE IF In("text", part)
    THEN IF part.t # "map" THEN Raised ELSE Parts(<<part.v["text"]>>)
    ELSE Parts(<<>>)

PartsLoop(it) ==
    IF it.raised THEN Raised
    ELSE Gather([i \in 1..Len(it.items) |-> PartTexts(it.items[i])])

\* Lines 170-175: the parts one candidate contributes.
CandidateParts(candidate) ==
    IF NoMembership(candidate) THEN Raised
    ELSE IF In("content", candidate)
    THEN IF candidate.t # "map" THEN Raised
         ELSE IF candidate.v["content"].t # "map" THEN Raised
         ELSE PartsLoop(Iter(Get(candidate.v["content"], "parts", EmptyList)))
    ELSE Parts(<<>>)

ChoicesLoop(it) ==
    IF it.raised THEN Raised
    ELSE Gather([i \in 1..Len(it.items) |-> ChoiceParts(it.items[i])])

BlocksLoop(it) ==
    IF it.raised THEN Raised
    ELSE Gather([i \in 1..Len(it.items) |-> BlockParts(it.items[i])])

CandidatesLoop(it) ==
    IF it.raised THEN Raised
    ELSE Gather([i \in 1..Len(it.items) |-> CandidateParts(it.items[i])])

\* Lines 155-175: content_parts.
ContentParts(response) ==
    Gather(<<IF Has(response, "choices")
             THEN ChoicesLoop(Iter(response.v["choices"])) ELSE Parts(<<>>),
             IF Has(response, "content")
             THEN BlocksLoop(Iter(response.v["content"])) ELSE Parts(<<>>),
             IF Has(response, "candidates")
             THEN CandidatesLoop(Iter(response.v["candidates"])) ELSE Parts(<<>>)>>)

JoinParts(gathered) == IF gathered.raised THEN Raised ELSE Join(gathered.parts)

_extract_content(response) == JoinParts(ContentParts(response))

\* hashlib.md5 of the text, as a digest that tells texts apart.
Md5(text) == <<"md5">> \o text

\* The digest of the same parts, or the exception the same loops raise.
HashOf(content) == IF content.raised THEN Raised ELSE [raised |-> FALSE, digest |-> Md5(content.text)]

_hash_response(response) == HashOf(_extract_content(response))

\* response["message"].get("usage", {}), when "usage" is in that message.
MessageUsage(message) ==
    IF NoMembership(message) THEN Raised
    ELSE IF In("usage", message)
    THEN IF message.t # "map" THEN Raised
         ELSE [raised |-> FALSE, usage |-> <<Get(message, "usage", EmptyMap)>>]
    ELSE [raised |-> FALSE, usage |-> <<>>]

\* Lines 329-332: the usage key of the normalized record, if it gets one.
NormalizedUsage(response) ==
    IF Has(response, "usage")
    THEN [raised |-> FALSE, usage |-> <<response.v["usage"]>>]
    ELSE MessageUsage(Get(response, "message", EmptyMap))

Normalized(response, content, hash, usage) ==
    IF content.raised \/ hash.raised \/ usage.raised THEN Raised
    ELSE [raised |-> FALSE,
          content |-> JStr(content.text),
          content_hash |-> hash.digest,
          model |-> Get(response, "model", EmptyText),
          usage |-> usage.usage]

_normalize_response(response) ==
    Normalized(response, _extract_content(response), _hash_response(response),
               NormalizedUsage(response))

---------------------------------------------------------------------------
(* ProxyClient (src/tests/client.py).  An optional value is <<>> (None) or *)
(* <<x>>.  Names, URLs and header names are strings; a text that the code  *)
(* slices or measures is a sequence of characters.                         *)

server_url == "http://localhost:12580"
test_prompt == "Hello, this is a test message. Please respond briefly."

TokenPrefix == <<"t", "i", "n", "g", "l", "y", "-", "b", "o", "x", "-">>

\* Characters of an error text the client keeps: response.text[:500]
ErrorCap == 500

StartsWith(s, p) == Len(s) >= Len(p) /\ SubSeq(s, 1, Len(p)) = p

_create_headers(token) ==
    LET headers == ("Content-Type" :> <<"application/json">>)
                   @@ ("User-Agent" :> <<"Tingly-Box-Test/1.0">>)
        raw_token == IF StartsWith(token, TokenPrefix)
                     THEN SubSeq(token, Len(TokenPrefix) + 1, Len(token))
                     ELSE token
    IN IF token # <<>>
       THEN ("Authorization" :> (<<"Bearer ">> \o token)) @@ ("X-Api-Key" :> raw_token) @@ headers
       ELSE headers

\* What the HTTP layer does with one request: it raises (a refused
\* connection, a timeout) with message msg, or returns a response with a
\* status, a text, and the value the text decodes to (NotJson: it does not).
NotJson == [t |-> "invalid", v |-> 0]

\* The exception messages str(e) of the client's own failures.
JsonErrorText == <<"Expecting value: line 1 column 1 (char 0)">>
NoGetText == <<"object has no attribute 'get'">>
NoLenText == <<"object has no len()">>

Failed(error) == [success |-> FALSE, error |-> JStr(error), raw_response |-> JNull]
Succeeded(data) == [success |-> TRUE, error |-> JNull, raw_response |-> data]

ClientResult_AnySuccessStatus(outcome, with_len) ==
    IF outcome.kind = "exc" THEN Failed(outcome.msg)
    ELSE IF outcome.status \div 100 = 2
    THEN IF outcome.json.t = "invalid" THEN Failed(JsonErrorText)
         ELSE IF outcome.json.t # "map" THEN Failed(NoGetText)
         ELSE Succeeded(outcome.json)
    ELSE Failed(SubSeq(outcome.text, 1, Min(Len(outcome.text), ErrorCap)))

\* The body of both methods from the response on; with_len: the method
\* takes len(data.get("choices", [])), a TypeError of None and of a number.
ClientResult(outcome, with_len) ==
    IF outcome.kind = "exc" THEN Failed(outcome.msg)
    ELSE IF outcome.status = 200
    THEN LET data == outcome.json
         IN IF data.t = "invalid" THEN Failed(JsonErrorText)
            ELSE IF data.t # "map" THEN Failed(NoGetText)
            ELSE IF with_len /\ NoMembership(Get(data, "choices", EmptyList))
                 THEN Failed(NoLenText)
            ELSE Succeeded(data)
    ELSE Failed(SubSeq(outcome.text, 1, Min(Len(outcome.text), ErrorCap)))

ClientRequest(token, path, v1, model, prompt, scenario, kwargs) ==
    [url |-> IF scenario # ""
             THEN server_url \o "/tingly/" \o scenario \o "/" \o path
             ELSE server_url \o "/" \o v1 \o "/" \o path,
     headers |-> _create_headers(token),
     json |-> kwargs @@ ("model" :> model)
              @@ ("messages" :> <<[role |-> "user", content |-> prompt]>>)]

\* Each method yields the request it posts and the envelope it returns.
chat_completions_openai(token, model, prompt, scenario, kwargs, outcome) ==
    [request |-> ClientRequest(token, "chat/completions", "openai/v1", model, prompt,
                               scenario, kwargs),
     result |-> ClientResult(outcome, TRUE)]

messages_anthropic(token, model, prompt, scenario, kwargs, outcome) ==
    [request |-> ClientRequest(token, "messages", "anthropic/v1", model, prompt,
                               scenario, kwargs),
     result |-> ClientResult(outcome, FALSE)]

NoKwargs == <<>>

---------------------------------------------------------------------------
(* DifferentialTestSuite: rule lookup and _run_path                         *)

RoundtripHeader == "X-Tingly-Response-Roundtrip"

_get_rule_by_request_model_Inactive(rs, request_model) ==
    LET hits == {i \in 1..Len(rs) : rs[i].request_model = request_model}
    IN IF hits = {} THEN <<>> ELSE <<rs[SetMin(hits)]>>

\* The first active rule with this request_model: <<rule>>, or <<>>.
_get_rule_by_request_model(rs, request_model) ==
    LET hits == {i \in 1..Len(rs) : rs[i].active /\ rs[i].request_model = request_model}
    IN IF hits = {} THEN <<>> ELSE <<rs[SetMin(hits)]>>

\* Lines 102-124: the call of the client, by the style of the path.
PathCall(token, style, scenario, request_model, kwargs, outcome) ==
    IF style = "openai"
    THEN chat_completions_openai(token, request_model, test_prompt, scenario, kwargs, outcome)
    ELSE messages_anthropic(token, request_model, test_prompt, scenario, kwargs, outcome)

\* Lines 115-124: the path record around the envelope of the call.
PathRecord(name, style, scenario, request_model, call) ==
    [request |-> call.request,
     path |-> [name |-> name, style |-> style, scenario |-> scenario,
               request_model |-> request_model,
               endpoint |-> "/tingly/" \o scenario \o "/"
                            \o (IF style = "openai" THEN "chat/completions" ELSE "messages"),
               result |-> call.result]]

_run_path(token, name, style, scenario, request_model, roundtrip, outcome) ==
    LET headers == IF roundtrip # <<>> /\ roundtrip[1] # ""
                   THEN <<(RoundtripHeader :> roundtrip[1])>>
                   ELSE <<>>
        kwargs == ("extra_headers" :> headers) @@ ("temperature" :> <<7, 10>>)
                  @@ ("max_tokens" :> <<100, 1>>)
    IN PathRecord(name, style, scenario, request_model,
                  PathCall(token, style, scenario, request_model, kwargs, outcome))

---------------------------------------------------------------------------
(* DifferentialResult and test_three_path_for_provider                      *)

\* A DifferentialResult with the dataclass defaults (message, detail,
\* duration and timestamp are left out: nothing reads them).
DifferentialResult(test_name, comparison_type, passed, verdict, error) ==
    [test_name |-> test_name,
     comparison_type |-> comparison_type,
     passed |-> passed,
     verdict |-> verdict,
     baseline_response |-> <<>>,
     comparison_response |-> <<>>,
     differences |-> <<>>,
     similarity_score |-> <<0, 1>>,
     baseline_tokens |-> 0,
     comparison_tokens |-> 0,
     token_difference |-> 0,
     paths |-> <<>>,
     error |-> error]

RECURSIVE JoinWith(_, _)
JoinWith(sep, parts) ==
    IF parts = <<>> THEN <<>>
    ELSE IF Len(parts) = 1 THEN parts[1]
    ELSE parts[1] \o sep \o JoinWith(sep, Tail(parts))

RequestFailedText == <<"request failed">>

\* p["result"].error or "request failed"
ErrorOrDefault(p) == IF Truthy(p.result.error) THEN p.result.error.v ELSE RequestFailedText

Failures_All(ps) == ps

\* The paths a three-path comparison reports an error for.
Failures(ps) == SelectSeq(ps, LAMBDA p : ~p.result.success)

\* Lines 229-250: the result when some path failed.
ThreePathFailed(base_model, ps) ==
    LET failures == Failures(ps)
    IN [DifferentialResult(base_model \o "_three_path", "three_path", FALSE, "fail",
                           JStr(JoinWith(<<"; ">>, [i \in 1..Len(failures) |->
                                                      ErrorOrDefault(failures[i])])))
        EXCEPT !.paths = [i \in 1..Len(ps) |->
                            [name |-> ps[i].name, style |-> ps[i].style,
                             scenario |-> ps[i].scenario,
                             request_model |-> ps[i].request_model,
                             endpoint |-> ps[i].endpoint,
                             success |-> ps[i].result.success,
                             error |-> ps[i].result.error]]]

\* Lines 257-267: the differences of the three normalized records.
ThreePathDifferences(normalized) ==
    LET missing_fields == {name \in DOMAIN normalized : NullFields(normalized[name]) # {}}
    IN IF missing_fields # {}
       THEN <<[type |-> "missing_fields",
               details |-> [name \in missing_fields |-> NullFields(normalized[name])]]>>
       ELSE <<>>

ThreePathVerdictOf_LowFails(differences, avg_similarity) ==
    IF differences # <<>> \/ FracLess(avg_similarity, <<7, 10>>) THEN "fail" ELSE "pass"

\* Lines 276-279.
ThreePathVerdictOf(differences, avg_similarity) ==
    IF differences # <<>> THEN "fail"
    ELSE IF FracLess(avg_similarity, <<7, 10>>) THEN "inconclusive"
    ELSE "pass"

\* The result with passed taken from the differences alone.
ThreePathResult_PassedNoDifferences(base_model, ps, normalized, differences, avg_similarity, verdict) ==
    [DifferentialResult(base_model \o "_three_path", "three_path",
                        differences = <<>>, verdict, JNull)
     EXCEPT !.baseline_response = normalized.direct,
            !.comparison_response = [xform |-> normalized.xform,
                                     roundtrip |-> normalized.roundtrip],
            !.differences = differences,
            !.similarity_score = avg_similarity,
            !.baseline_tokens = _count_tokens_estimate(normalized.direct.content.v),
            !.comparison_tokens = _count_tokens_estimate(normalized.xform.content.v),
            !.token_difference =
                Abs(_count_tokens_estimate(normalized.direct.content.v)
                    - _count_tokens_estimate(normalized.roundtrip.content.v)),
            !.paths = [i \in 1..Len(ps) |->
                         [name |-> ps[i].name, style |-> ps[i].style,
                          scenario |-> ps[i].scenario,
                          request_model |-> ps[i].request_model,
                          endpoint |-> ps[i].endpoint]]]

\* Lines 280-318: the result of a comparison that was carried through.
ThreePathResult(base_model, ps, normalized, differences, avg_similarity, verdict) ==
    [DifferentialResult(base_model \o "_three_path", "three_path",
                        differences = <<>> /\ verdict = "pass", verdict, JNull)
     EXCEPT !.baseline_response = normalized.direct,
            !.comparison_response = [xform |-> normalized.xform,
                                     roundtrip |-> normalized.roundtrip],
            !.differences = differences,
            !.similarity_score = avg_similarity,
            !.baseline_tokens = _count_tokens_estimate(normalized.direct.content.v),
            !.comparison_tokens = _count_tokens_estimate(normalized.xform.content.v),
            !.token_difference =
                Abs(_count_tokens_estimate(normalized.direct.content.v)
                    - _count_tokens_estimate(normalized.roundtrip.content.v)),
            !.paths = [i \in 1..Len(ps) |->
                         [name |-> ps[i].name, style |-> ps[i].style,
                          scenario |-> ps[i].scenario,
                          request_model |-> ps[i].request_model,
                          endpoint |-> ps[i].endpoint]]]

\* Lines 276-279: the verdict on the differences and the average.
ThreePathScored(base_model, ps, normalized, differences, avg_similarity) ==
    ThreePathResult(base_model, ps, normalized, differences, avg_similarity,
                    ThreePathVerdictOf(differences, avg_similarity))

\* Lines 257-274: differences and similarities of the normalized records;
\* len() and SequenceMatcher raise on a content that is no string.
ThreePathJudged(base_model, ps, normalized) ==
    IF \E name \in DOMAIN normalized : normalized[name].content.t # "str"
    THEN Raised
    ELSE Returned(ThreePathScored(
             base_model, ps, normalized, ThreePathDifferences(normalized),
             Mean(<<_calculate_similarity(normalized.direct.content.v,
                                          normalized.xform.content.v),
                    _calculate_similarity(normalized.direct.content.v,
                                          normalized.roundtrip.content.v)>>)))

\* Lines 252-255: the three normalizations, in path order; any may raise.
ThreePathNormalized(ps) ==
    [i \in 1..3 |-> _normalize_response_style(ps[i].style,
                                              OrElse(ps[i].result.raw_response, EmptyMap))]

ThreePathNamed(base_model, ps, norm) ==
    IF \E i \in 1..3 : norm[i].raised THEN Raised
    ELSE ThreePathJudged(base_model, ps,
                         [direct |-> norm[1], xform |-> norm[2], roundtrip |-> norm[3]])

\* Lines 252-318: the result when every path succeeded, or Raised.
ThreePathCompared(base_model, ps) == ThreePathNamed(base_model, ps, ThreePathNormalized(ps))

\* Lines 224-318: what the test returns once the three paths have run.
ThreePathOutcome(base_model, ps) ==
    IF Failures(ps) # <<>> THEN Returned(ThreePathFailed(base_model, ps))
    ELSE ThreePathCompared(base_model, ps)

\* The styles with the roundtrip path on the xform path's dialect.
ThreePathStyles_RoundtripOther(provider) ==
    IF provider.api_style = "anthropic"
    THEN [direct |-> "anthropic", xform |-> "openai", roundtrip |-> "openai",
          header |-> "openai"]
    ELSE [direct |-> "openai", xform |-> "anthropic", roundtrip |-> "anthropic",
          header |-> "anthropic"]

\* Lines 209-218: <<direct_style, xform_style, roundtrip_style, roundtrip_header>>
ThreePathStyles(provider) ==
    IF provider.api_style = "anthropic"
    THEN [direct |-> "anthropic", xform |-> "openai", roundtrip |-> "anthropic",
          header |-> "openai"]
    ELSE [direct |-> "openai", xform |-> "anthropic", roundtrip |-> "openai",
          header |-> "anthropic"]

\* Lines 194-207.
ThreePathRules(rs, base_model) ==
    [direct |-> _get_rule_by_request_model(rs, base_model),
     xform |-> _get_rule_by_request_model(rs, base_model \o "-xform"),
     roundtrip |-> _get_rule_by_request_model(rs, base_model \o "-rt")]

ThreePathMissing(base_model) ==
    DifferentialResult(base_model \o "_three_path", "three_path", FALSE, "inconclusive",
                       JStr(<<"Missing one or more differential rules (direct/xform/roundtrip)">>))

---------------------------------------------------------------------------
(* TestConfig lookups (src/tests/config.py) and _get_rule_for_scenario.     *)

\* The rule matching the scenario: <<rule>>, or <<>>.
get_rule_by_scenario(rs, scenario) ==
    LET hits == {i \in 1..Len(rs) : rs[i].scenario = scenario}
    IN IF hits = {} THEN <<>> ELSE <<rs[SetMin(hits)]>>

\* An arbitrary active rule: the rules get_any_rule may return.
get_any_rule(rs) ==
    IF \E i \in 1..Len(rs) : rs[i].active
    THEN {<<rs[i]>> : i \in {k \in 1..Len(rs) : rs[k].active}}
    ELSE {<<>>}

\* The provider with this uuid: <<provider>>, or <<>>.
get_provider_by_uuid(ps, uuid) ==
    LET hits == {i \in 1..Len(ps) : ps[i].uuid = uuid}
    IN IF hits = {} THEN <<>> ELSE <<ps[SetMin(hits)]>>

\* Lines 81-85, any being what get_any_rule returns if it is asked.
_get_rule_for_scenario(rs, scenario, any) ==
    IF get_rule_by_scenario(rs, scenario) # <<>> THEN get_rule_by_scenario(rs, scenario)
    ELSE any

\* rule.request_model if rule and rule.request_model else model, then `or ""`
ModelOf(rule, model) ==
    IF rule # <<>> /\ rule[1].request_model # "" THEN rule[1].request_model
    ELSE IF model # <<>> THEN model[1] ELSE ""

\* rule.scenario if rule else scenario
ScenarioOf(rule, scenario) == IF rule # <<>> THEN rule[1].scenario ELSE scenario

---------------------------------------------------------------------------
(* test_roundtrip_openai_anthropic_openai and test_anthropic_roundtrip      *)

\* str(e) of an exception caught at the end of a test
ExceptionText == <<"str(e)">>

\* responses: the envelopes that succeeded, in call order
Responses(ps) == SelectSeq(ps, LAMBDA p : p.result.success)

RoundtripInsufficient(test_name) ==
    DifferentialResult(test_name, "roundtrip", FALSE, "inconclusive",
                       JStr(<<"Need at least 2 responses for comparison">>))

RoundtripException(test_name) ==
    DifferentialResult(test_name, "roundtrip", FALSE, "inconclusive", JStr(ExceptionText))

RoundtripPassed_Half(content_similarity) == FracGeq(content_similarity, <<1, 2>>)

\* Lines 454 and 565.
RoundtripPassed(content_similarity) == FracGeq(content_similarity, <<7, 10>>)

\* Lines 445-452 and 556-563.
RoundtripDifferences(content_similarity) ==
    IF FracLess(content_similarity, <<7, 10>>)
    THEN <<[type |-> "content_similarity", value |-> content_similarity,
            threshold |-> <<7, 10>>]>>
    ELSE <<>>

\* Lines 442-471 and 553-582.
RoundtripScored(test_name, baseline, comparison, content_similarity) ==
    [DifferentialResult(test_name, "roundtrip", RoundtripPassed(content_similarity),
                        IF RoundtripPassed(content_similarity) THEN "pass" ELSE "inconclusive",
                        JNull)
     EXCEPT !.baseline_response = baseline,
            !.comparison_response = comparison,
            !.differences = RoundtripDifferences(content_similarity),
            !.similarity_score = content_similarity,
            !.baseline_tokens = _count_tokens_estimate(baseline.content.v),
            !.comparison_tokens = _count_tokens_estimate(comparison.content.v),
            !.token_difference = Abs(_count_tokens_estimate(baseline.content.v)
                                     - _count_tokens_estimate(comparison.content.v))]

\* Lines 434-440 and 545-551, inside the try.
RoundtripCompared(test_name, baseline, comparison) ==
    IF baseline.raised \/ comparison.raised THEN RoundtripException(test_name)
    ELSE RoundtripScored(test_name, baseline, comparison,
                         _calculate_similarity(baseline.content.v, comparison.content.v))

RoundtripOver(test_name, responses) ==
    IF Len(responses) < 2 THEN RoundtripInsufficient(test_name)
    ELSE RoundtripCompared(
             test_name,
             _normalize_response(OrElse(responses[1].result.raw_response, EmptyMap)),
             _normalize_response(OrElse(responses[2].result.raw_response, EmptyMap)))

\* Lines 418-483 and 529-594: what the test returns once both calls are made.
RoundtripOutcome(test_name, ps) == RoundtripOver(test_name, Responses(ps))

\* The two tests: the client method both calls use, and whose rule the
\* direct and the transformed call take.
RoundtripTests ==
    [roundtrip_o_a_o |-> [style |-> "openai", direct |-> "openai", transformed |-> "anthropic"],
     anthropic_roundtrip |-> [style |-> "anthropic", direct |-> "anthropic",
                              transformed |-> "openai"]]

---------------------------------------------------------------------------
(* test_multi_provider_consistency                                          *)

\* Lines 608-617: provider_models.
ProviderModels(given, openai_rule, anthropic_rule) ==
    IF given # <<>> THEN given
    ELSE (IF openai_rule # <<>> /\ openai_rule[1].request_model # ""
          THEN <<<<"openai", openai_rule[1].scenario, openai_rule[1].request_model>>>>
          ELSE <<>>)
         \o (IF anthropic_rule # <<>> /\ anthropic_rule[1].request_model # ""
             THEN <<<<"anthropic", anthropic_rule[1].scenario,
                      anthropic_rule[1].request_model>>>>
             ELSE <<>>)

\* Lines 620-624: <<api_style, scenario, model>> of an item.
ItemOf(item) == IF Len(item) = 3 THEN item ELSE <<item[1], item[1], item[2]>>

MultiInsufficient ==
    DifferentialResult("multi_provider_consistency", "cross_provider", FALSE, "inconclusive",
                       JStr(<<"Need at least 2 provider responses">>))

MultiException ==
    DifferentialResult("multi_provider_consistency", "cross_provider", FALSE, "inconclusive",
                       JStr(ExceptionText))

\* The pairs i < j of 1..n in the order of the two loops.
RECURSIVE PairsFrom(_, _, _)
PairsFrom(i, j, n) ==
    IF i >= n THEN <<>>
    ELSE IF j > n THEN PairsFrom(i + 1, i + 2, n)
    ELSE <<<<i, j>>>> \o PairsFrom(i, j + 1, n)

\* Lines 669-680.
Similarities(normalized_responses, pairs) ==
    [k \in 1..Len(pairs) |->
        [pair |-> normalized_responses[pairs[k][1]].provider \o "_"
                  \o normalized_responses[pairs[k][2]].provider,
         similarity |-> _calculate_similarity(
                            normalized_responses[pairs[k][1]].normalized.content.v,
                            normalized_responses[pairs[k][2]].normalized.content.v)]]

\* Lines 682-686: the first of the pairs of least similarity (the sort is
\* stable).
Minority(similarities) ==
    IF similarities = <<>> THEN [pair |-> "none", similarity |-> <<1, 1>>]
    ELSE similarities[SetMin({k \in 1..Len(similarities) :
                                \A m \in 1..Len(similarities) :
                                    ~FracLess(similarities[m].similarity,
                                              similarities[k].similarity)})]

\* Line 688.
AverageSimilarity(similarities) ==
    IF similarities = <<>> THEN <<1, 1>>
    ELSE Mean([k \in 1..Len(similarities) |-> similarities[k].similarity])

MinorityGuilty_NoMargin(minority, avg_similarity) ==
    FracLess(minority.similarity, avg_similarity)

\* Guilty as soon as the least similarity is below a half.
MinorityGuilty_BelowHalf(minority, avg_similarity) ==
    FracLess(minority.similarity, <<1, 2>>)

\* Line 690.
MinorityGuilty(minority, avg_similarity) ==
    FracLess(minority.similarity, FracSub(avg_similarity, <<1, 5>>))

\* Lines 692-715.
MultiScored(normalized_responses, minority, avg_similarity, minority_guilty) ==
    [DifferentialResult("multi_provider_consistency", "cross_provider",
                        FracGeq(avg_similarity, <<1, 2>>) /\ ~minority_guilty,
                        IF FracGeq(avg_similarity, <<1, 2>>) /\ ~minority_guilty THEN "pass"
                        ELSE IF minority_guilty THEN "fail" ELSE "inconclusive",
                        JNull)
     EXCEPT !.baseline_response = normalized_responses[1].normalized,
            !.comparison_response = normalized_responses[Len(normalized_responses)].normalized,
            !.differences = IF minority_guilty
                            THEN <<[type |-> "minority_pair", pair |-> minority.pair,
                                    similarity |-> minority.similarity]>>
                            ELSE <<>>,
            !.similarity_score = avg_similarity]

MultiJudged(normalized_responses, minority, avg_similarity) ==
    MultiScored(normalized_responses, minority, avg_similarity,
                MinorityGuilty(minority, avg_similarity))

MultiMeasured(normalized_responses, similarities) ==
    MultiJudged(normalized_responses, Minority(similarities), AverageSimilarity(similarities))

\* Lines 661-715, inside the try.
MultiCompared(normalized_responses) ==
    IF \E i \in 1..Len(normalized_responses) : normalized_responses[i].normalized.raised
    THEN MultiException
    ELSE MultiMeasured(normalized_responses,
                       Similarities(normalized_responses,
                                    PairsFrom(1, 2, Len(normalized_responses))))

MultiOver(responses) ==
    IF Len(responses) < 2 THEN MultiInsufficient
    ELSE MultiCompared([i \in 1..Len(responses) |->
                          [provider |-> responses[i].style,
                           normalized |-> _normalize_response(
                                              OrElse(responses[i].result.raw_response,
                                                     EmptyMap))]])

\* Lines 648-727: what the test returns once every call is made.
MultiOutcome(ps) == MultiOver(Responses(ps))

---------------------------------------------------------------------------
(* The responses the proxy may give: bodies of both dialects, well-formed  *)
(* and not, and the failures of the HTTP layer.                            *)

OpenAIUsage ==
    JMap([prompt_tokens |-> JInt(3), completion_tokens |-> JInt(1), total_tokens |-> JInt(4)])
AnthropicUsage == JMap([input_tokens |-> JInt(3), output_tokens |-> JInt(1)])

WithUsage(body, usage) == JMap(("usage" :> usage) @@ body.v)

Message(content) == JMap([role |-> JStr(<<"assistant">>), content |-> content])
Choice(message) ==
    JMap([index |-> JInt(0), message |-> message, finish_reason |-> JStr(<<"stop">>)])

OpenAIBody(model, choices) ==
    JMap([id |-> JStr(<<"x">>), object |-> JStr(<<"chat.completion">>), created |-> JInt(1),
          model |-> model, choices |-> choices])

Block(text) == JMap([type |-> JStr(TextT), text |-> text])
ToolBlock == JMap([type |-> JStr(<<"tool_use">>), text |-> JStr(<<"b">>), input |-> EmptyMap])

AnthropicBody(model, content) ==
    JMap([id |-> JStr(<<"x">>), type |-> JStr(<<"message">>), role |-> JStr(<<"assistant">>),
          content |-> content, model |-> model, stop_reason |-> JStr(<<"end_turn">>)])

M == JStr(<<"m">>)
A == JStr(<<"a">>)

\* The bodies the comparisons are run on.
OpenAIBodies ==
    {WithUsage(OpenAIBody(M, JList(<<Choice(Message(JStr(c)))>>)), OpenAIUsage) : c \in Texts}
    \cup {OpenAIBody(M, JList(<<Choice(Message(A))>>)),                        \* no usage
          WithUsage(OpenAIBody(JNull, JList(<<Choice(Message(A))>>)), OpenAIUsage), \* model: null
          WithUsage(OpenAIBody(M, EmptyList), OpenAIUsage),                    \* choices: []
          WithUsage(OpenAIBody(M, JList(<<Choice(Message(JNull))>>)), OpenAIUsage), \* content: null
          WithUsage(OpenAIBody(M, JList(<<A>>)), OpenAIUsage)}                 \* a choice that is no map

AnthropicBodies ==
    {WithUsage(AnthropicBody(M, JList(<<Block(JStr(c))>>)), AnthropicUsage) :
        c \in TextsUpTo(MaxLen - 1)}
    \cup {AnthropicBody(M, JList(<<Block(A)>>)),                               \* no usage
          WithUsage(AnthropicBody(M, JList(<<ToolBlock, Block(A)>>)), AnthropicUsage),
          WithUsage(AnthropicBody(M, JList(<<A>>)), AnthropicUsage)}           \* a block that is no map

Bodies == OpenAIBodies \cup AnthropicBodies

LongText == [i \in 1..(ErrorCap + 1) |-> "x"]

Http(kind, status, text, json, msg) ==
    [kind |-> kind, status |-> status, text |-> text, json |-> json, msg |-> msg]

\* The failures the comparisons are run on: an exception with an empty
\* message, an error status, a body that is no JSON.
HttpFailures ==
    {Http("exc", 0, <<>>, NotJson, <<>>),
     Http("resp", 500, <<"E">>, NotJson, <<>>),
     Http("resp", 200, <<>>, NotJson, <<>>)}

HttpOutcomes == HttpFailures \cup {Http("resp", 200, <<>>, body, <<>>) : body \in Bodies}

\* Bodies of other shapes, for the comparisons that find the content by
\* the keys a body has: a Google body, a streaming chunk, an empty body, a
\* body whose choices are no maps.
GoogleBody ==
    JMap([candidates |-> JList(<<JMap([content |-> JMap([parts |->
                                   JList(<<JMap([text |-> A])>>)])])>>)])
ChunkBody == OpenAIBody(M, JList(<<JMap([index |-> JInt(0), delta |-> Message(A)])>>))
NumberChoiceBody == WithUsage(OpenAIBody(M, JList(<<JInt(1)>>)), OpenAIUsage)

RoundOutcomes ==
    HttpOutcomes
    \cup {Http("resp", 200, <<>>, body, <<>>) :
            body \in {GoogleBody, ChunkBody, EmptyMap, NumberChoiceBody}}

\* The responses the multi-provider comparison is run on.
MultiOutcomes ==
    {Http("resp", 500, <<"E">>, NotJson, <<>>), Http("resp", 200, <<>>, NumberChoiceBody, <<>>)}
    \cup {Http("resp", 200, <<>>,
               WithUsage(OpenAIBody(M, JList(<<Choice(Message(JStr(c)))>>)), OpenAIUsage), <<>>) :
            c \in Texts}

\* The responses the suite runs are run on: a good body of either dialect,
\* a body whose choice is no map, a good body of another content, and an
\* error status.
SuiteOutcomes ==
    {Http("resp", 200, <<>>, body, <<>>) :
        body \in {WithUsage(OpenAIBody(M, JList(<<Choice(Message(A))>>)), OpenAIUsage),
                  WithUsage(AnthropicBody(M, JList(<<Block(A)>>)), AnthropicUsage),
                  WithUsage(OpenAIBody(M, JList(<<A>>)), OpenAIUsage),
                  WithUsage(OpenAIBody(M, JList(<<Choice(Message(JStr(<<"b">>)))>>)),
                            OpenAIUsage)}}
    \cup {Http("resp", 500, <<"E">>, NotJson, <<>>)}

---------------------------------------------------------------------------
(* State.                                                                   *)

VARIABLES
    rules,        \* config.rules
    providers,    \* config.providers
    auth_token,   \* the proxy client's token
    args,         \* the arguments and locals of the running test
    pc,           \* where the run is
    paths,        \* the calls of the running test so far, each with its envelope
    calls,        \* the requests the running test posted so far, in order
    result,       \* what the running test returned: <<r>>, or <<>>
    suite,        \* DifferentialTestSuite.run_all_tests: its rules, loop and result
    runner        \* TestRunner.run_all_tests and main: the loop, the totals, the exit

vars == <<rules, providers, auth_token, args, pc, paths, calls, result, suite, runner>>

config == <<rules, providers, auth_token>>

Rule(scenario, request_model, active, services) ==
    [scenario |-> scenario, request_model |-> request_model, active |-> active,
     services |-> services]

Provider(uuid, name, api_style) == [uuid |-> uuid, name |-> name, api_style |-> api_style]

APIStyles == {"openai", "anthropic", "google"}

Token == TokenPrefix \o <<"k">>

\* The rules for one request model: none, an inactive one, an active one.
RuleChoices(scenario, request_model) ==
    {<<>>,
     <<Rule(scenario, request_model, FALSE, <<>>)>>,
     <<Rule(scenario, request_model, TRUE, <<>>)>>}

\* DifferentialTestSuiteResult, as constructed.
SuiteResult == [results |-> <<>>, total_tests |-> 0, passed |-> 0, failed |-> 0,
                inconclusive |-> 0]

\* No suite run and no runner.
NoSuite == [base_rules |-> <<>>, cursor |-> 0, result |-> SuiteResult]
NoRunner == [mode |-> "", position |-> 0, all_results |-> <<>>, total_tests |-> 0,
             total_passed |-> 0, total_failed |-> 0, total_skipped |-> 0,
             result |-> <<>>, exit_code |-> <<>>]

---------------------------------------------------------------------------
(* test_three_path_for_provider, one step per proxy call.                   *)

InitThree ==
    /\ \E style \in APIStyles :
         /\ providers = <<Provider("p1", "qwen", style)>>
         /\ args = [provider |-> Provider("p1", "qwen", style), base_model |-> "qwen-test"]
    /\ \E d \in RuleChoices("openai", "qwen-test"),
          x \in RuleChoices("anthropic", "qwen-test-xform"),
          r \in RuleChoices("openai", "qwen-test-rt") : rules = d \o x \o r
    /\ auth_token = Token
    /\ pc = "start"
    /\ paths = <<>>
    /\ calls = <<>>
    /\ result = <<>>
    /\ suite = NoSuite
    /\ runner = NoRunner

\* Lines 194-207: dispatch.
ThreePathDispatch ==
    /\ pc = "start"
    /\ LET found == ThreePathRules(rules, args.base_model)
       IN IF found.direct = <<>> \/ found.xform = <<>> \/ found.roundtrip = <<>>
          THEN /\ result' = <<ThreePathMissing(args.base_model)>>
               /\ pc' = "done"
          ELSE /\ result' = result
               /\ pc' = "direct"
    /\ UNCHANGED <<config, args, paths, calls, suite, runner>>

Recorded(run) ==
    /\ paths' = Append(paths, run.path)
    /\ calls' = Append(calls, run.request)

RunPath(name, rule, style, roundtrip, outcome) ==
    Recorded(_run_path(auth_token, name, style, rule.scenario, rule.request_model,
                       roundtrip, outcome))

\* The test returns out's value, or is left by the exception out stands for.
ThreePathReturn(out) ==
    IF out.raised
    THEN result' = <<>> /\ pc' = "raised"
    ELSE result' = <<out.value>> /\ pc' = "done"

\* Line 220, the proxy answering with one of outcomes.
ThreePathDirect(outcomes) ==
    /\ pc = "direct"
    /\ \E outcome \in outcomes :
         RunPath("direct", ThreePathRules(rules, args.base_model).direct[1],
                 ThreePathStyles(args.provider).direct, <<>>, outcome)
    /\ pc' = "xform"
    /\ UNCHANGED <<config, args, result, suite, runner>>

\* Line 221.
ThreePathXform(outcomes) ==
    /\ pc = "xform"
    /\ \E outcome \in outcomes :
         RunPath("xform", ThreePathRules(rules, args.base_model).xform[1],
                 ThreePathStyles(args.provider).xform, <<>>, outcome)
    /\ pc' = "roundtrip"
    /\ UNCHANGED <<config, args, result, suite, runner>>

\* Lines 222-318: the last call, and the verdict on the three paths.  An
\* exception of the comparison leaves the test without a result.
ThreePathRoundtrip(outcomes) ==
    /\ pc = "roundtrip"
    /\ \E outcome \in outcomes :
         /\ RunPath("roundtrip", ThreePathRules(rules, args.base_model).roundtrip[1],
                    ThreePathStyles(args.provider).roundtrip,
                    <<ThreePathStyles(args.provider).header>>, outcome)
         /\ ThreePathReturn(ThreePathOutcome(args.base_model, paths'))
    /\ UNCHANGED <<config, args, suite, runner>>

NextThree ==
    \/ ThreePathDispatch
    \/ ThreePathDirect(HttpOutcomes)
    \/ ThreePathXform(HttpOutcomes)
    \/ ThreePathRoundtrip(HttpOutcomes)

SpecThree == InitThree /\ [][NextThree]_vars

---------------------------------------------------------------------------
(* The two roundtrip tests, one step per proxy call.                        *)

\* The configurations the roundtrip and multi-provider tests are run on:
\* no rule, a rule per scenario, rules of other scenarios only (one with
\* no request model), an inactive rule.
ScenarioRuleSets ==
    {<<>>,
     <<Rule("openai", "gpt", TRUE, <<>>), Rule("anthropic", "claude", TRUE, <<>>)>>,
     <<Rule("claude_code", "cc", TRUE, <<>>), Rule("codex", "", TRUE, <<>>)>>,
     <<Rule("openai", "gpt", FALSE, <<>>)>>}

InitRound ==
    /\ rules \in ScenarioRuleSets
    /\ providers = <<>>
    /\ auth_token = Token
    /\ \E test \in DOMAIN RoundtripTests, model \in {<<>>, <<"m">>} :
         args = [test |-> test, model |-> model, openai_rule |-> <<>>, anthropic_rule |-> <<>>]
    /\ pc = "start"
    /\ paths = <<>>
    /\ calls = <<>>
    /\ result = <<>>
    /\ suite = NoSuite
    /\ runner = NoRunner

\* Lines 385-386 and 496-497.
RoundResolve ==
    /\ pc = "start"
    /\ \E any_openai \in get_any_rule(rules), any_anthropic \in get_any_rule(rules) :
         args' = [args EXCEPT
                    !.openai_rule = _get_rule_for_scenario(rules, "openai", any_openai),
                    !.anthropic_rule = _get_rule_for_scenario(rules, "anthropic", any_anthropic)]
    /\ pc' = "direct"
    /\ UNCHANGED <<config, paths, calls, result, suite, runner>>

Answered(name, style, call) ==
    /\ paths' = Append(paths, [name |-> name, style |-> style, result |-> call.result])
    /\ calls' = Append(calls, call.request)

\* A call of the client with no keyword, for the rule of a scenario.
ScenarioCall(name, style, rule, scenario, model, outcome) ==
    Answered(name, style,
             PathCall(auth_token, style, ScenarioOf(rule, scenario), ModelOf(rule, model),
                      NoKwargs, outcome))

RuleFor(scenario) == IF scenario = "openai" THEN args.openai_rule ELSE args.anthropic_rule

\* Lines 391-402 and 502-513.
RoundDirect ==
    /\ pc = "direct"
    /\ \E outcome \in RoundOutcomes :
         ScenarioCall("direct", RoundtripTests[args.test].style,
                      RuleFor(RoundtripTests[args.test].direct),
                      RoundtripTests[args.test].direct, args.model, outcome)
    /\ pc' = "transformed"
    /\ UNCHANGED <<config, args, result, suite, runner>>

\* Lines 405-483 and 516-594: the second call and the verdict.
RoundTransformed ==
    /\ pc = "transformed"
    /\ \E outcome \in RoundOutcomes :
         ScenarioCall("transformed", RoundtripTests[args.test].style,
                      RuleFor(RoundtripTests[args.test].transformed),
                      RoundtripTests[args.test].transformed, args.model, outcome)
    /\ result' = <<RoundtripOutcome(args.test, paths')>>
    /\ pc' = "done"
    /\ UNCHANGED <<config, args, suite, runner>>

NextRound == RoundResolve \/ RoundDirect \/ RoundTransformed

SpecRound == InitRound /\ [][NextRound]_vars

---------------------------------------------------------------------------
(* test_multi_provider_consistency, one step per proxy call.                *)

\* The i-th item of a providers argument: pairs and triples in turn.
MultiItem(i) ==
    IF i % 2 = 1 THEN <<"openai", "gpt">> ELSE <<"anthropic", "anthropic", "claude">>

InitMulti ==
    /\ rules \in ScenarioRuleSets
    /\ providers = <<>>
    /\ auth_token = Token
    /\ \E n \in 0..MaxProviders :
         args = [providers |-> [i \in 1..n |-> MultiItem(i)], provider_models |-> <<>>]
    /\ pc = "start"
    /\ paths = <<>>
    /\ calls = <<>>
    /\ result = <<>>
    /\ suite = NoSuite
    /\ runner = NoRunner

\* With nothing to call the test returns at once.
MultiBegin(provider_models) ==
    IF provider_models = <<>>
    THEN /\ result' = <<MultiOutcome(<<>>)>>
         /\ pc' = "done"
         /\ args' = args
    ELSE /\ result' = result
         /\ pc' = "calls"
         /\ args' = [args EXCEPT !.provider_models = provider_models]

\* Lines 606-617.
MultiResolve ==
    /\ pc = "start"
    /\ \E any_openai \in get_any_rule(rules), any_anthropic \in get_any_rule(rules) :
         MultiBegin(ProviderModels(args.providers,
                                   _get_rule_for_scenario(rules, "openai", any_openai),
                                   _get_rule_for_scenario(rules, "anthropic", any_anthropic)))
    /\ UNCHANGED <<config, paths, calls, suite, runner>>

\* Lines 619-646: the call for an item <<api_style, scenario, model>>.
ItemCall(item, outcome) ==
    Answered(item[1], item[1],
             PathCall(auth_token, item[1], item[2], item[3], NoKwargs, outcome))

MultiCall ==
    /\ pc = "calls"
    /\ Len(paths) + 1 < Len(args.provider_models)
    /\ \E outcome \in MultiOutcomes :
         ItemCall(ItemOf(args.provider_models[Len(paths) + 1]), outcome)
    /\ UNCHANGED <<config, args, pc, result, suite, runner>>

\* Lines 619-727: the last call and the verdict.
MultiLast ==
    /\ pc = "calls"
    /\ Len(paths) + 1 = Len(args.provider_models)
    /\ \E outcome \in MultiOutcomes :
         ItemCall(ItemOf(args.provider_models[Len(paths) + 1]), outcome)
    /\ result' = <<MultiOutcome(paths')>>
    /\ pc' = "done"
    /\ UNCHANGED <<config, args, suite, runner>>

NextMulti == MultiResolve \/ MultiCall \/ MultiLast

SpecMulti == InitMulti /\ [][NextMulti]_vars

---------------------------------------------------------------------------
(* DifferentialTestSuite.run_all_tests, one step per rule and per call.     *)

\* Most target models a configuration has rules for.
MaxTargets == 2

\* Line 835, in the order the configurations list them.
target_models == <<"qwen-test", "glm-test", "minimax-test">>

Service(provider) == [provider |-> provider, model |-> "backend"]

\* rule.services[0].get("provider", "")
ServiceProvider(service) == IF "provider" \in DOMAIN service THEN service.provider ELSE ""

\* The rules a configuration may hold for one target model: none; the
\* three rules with a provider that is there; with one that is not; without
\* the roundtrip rule; with a base rule that has no service.
FamilyRules(variant, base_model, uuid) ==
    CASE variant = 1 -> <<>>
      [] variant = 2 -> <<Rule("openai", base_model, TRUE, <<Service(uuid)>>),
                          Rule("anthropic", base_model \o "-xform", TRUE, <<>>),
                          Rule("openai", base_model \o "-rt", TRUE, <<>>)>>
      [] variant = 3 -> <<Rule("openai", base_model, TRUE, <<Service("gone")>>),
                          Rule("anthropic", base_model \o "-xform", TRUE, <<>>),
                          Rule("openai", base_model \o "-rt", TRUE, <<>>)>>
      [] variant = 4 -> <<Rule("openai", base_model, TRUE, <<Service(uuid)>>),
                          Rule("anthropic", base_model \o "-xform", TRUE, <<>>)>>
      [] variant = 5 -> <<Rule("openai", base_model, TRUE, <<>>)>>

SuiteProviders == <<Provider("p1", "qwen", "openai"), Provider("p2", "glm", "anthropic")>>

\* The rule lists with rules for the first n target models.
SuiteRules(n) ==
    {Concat([i \in 1..n |-> FamilyRules(variant[i], target_models[i],
                                        SuiteProviders[2 - (i % 2)].uuid)]) :
        variant \in [1..n -> 1..5]}

InitSuite ==
    /\ rules \in SuiteRules(MaxTargets)
    /\ providers = SuiteProviders
    /\ auth_token = Token
    /\ args = <<>>
    /\ pc = "suite_start"
    /\ paths = <<>>
    /\ calls = <<>>
    /\ result = <<>>
    /\ suite = NoSuite
    /\ runner = NoRunner

\* Lines 836-839.
BaseRules(rs) ==
    SelectSeq(rs, LAMBDA r : r.active
                             /\ r.request_model \in {target_models[i] :
                                                        i \in DOMAIN target_models}
                             /\ r.services # <<>>)

Started(base_rules) ==
    /\ suite' = [base_rules |-> base_rules, cursor |-> 0, result |-> SuiteResult]
    /\ pc' = IF base_rules = <<>> THEN "suite_done" ELSE "suite"

\* Lines 830-843.
SuiteStart ==
    /\ pc = "suite_start"
    /\ Started(BaseRules(rules))
    /\ UNCHANGED <<config, args, paths, calls, result, runner>>

\* Lines 846-848: the provider of the rule the loop is at.
RuleProvider ==
    get_provider_by_uuid(providers,
                         ServiceProvider(suite.base_rules[suite.cursor + 1].services[1]))

\* Lines 849-850: no provider, the loop goes on to the next rule.
SuiteSkip ==
    /\ pc = "suite"
    /\ suite.cursor < Len(suite.base_rules)
    /\ RuleProvider = <<>>
    /\ suite' = [suite EXCEPT !.cursor = @ + 1]
    /\ UNCHANGED <<config, args, pc, paths, calls, result, runner>>

\* Line 852: the call of the three-path test.
SuiteTest ==
    /\ pc = "suite"
    /\ suite.cursor < Len(suite.base_rules)
    /\ RuleProvider # <<>>
    /\ args' = [provider |-> RuleProvider[1],
                base_model |-> suite.base_rules[suite.cursor + 1].request_model]
    /\ paths' = <<>>
    /\ calls' = <<>>
    /\ result' = <<>>
    /\ pc' = "start"
    /\ UNCHANGED <<config, suite, runner>>

Counted_FailedToo(suite_result, r) ==
    [suite_result EXCEPT
        !.results = Append(@, r),
        !.total_tests = @ + 1,
        !.passed = IF r.passed THEN @ + 1 ELSE @,
        !.inconclusive = IF ~r.passed /\ r.verdict = "inconclusive" THEN @ + 1 ELSE @,
        !.failed = IF ~r.passed THEN @ + 1 ELSE @]

\* Lines 853-860.
Counted(suite_result, r) ==
    [suite_result EXCEPT
        !.results = Append(@, r),
        !.total_tests = @ + 1,
        !.passed = IF r.passed THEN @ + 1 ELSE @,
        !.inconclusive = IF ~r.passed /\ r.verdict = "inconclusive" THEN @ + 1 ELSE @,
        !.failed = IF ~r.passed /\ r.verdict # "inconclusive" THEN @ + 1 ELSE @]

SuiteRecord_Deactivates ==
    /\ pc = "done"
    /\ suite' = [suite EXCEPT !.cursor = @ + 1, !.result = Counted(@, result[1])]
    /\ rules' = [i \in DOMAIN rules |-> [rules[i] EXCEPT !.active = FALSE]]
    /\ pc' = "suite"
    /\ UNCHANGED <<providers, auth_token, args, paths, calls, result, runner>>

\* Lines 853-861: the test returned.
SuiteRecord ==
    /\ pc = "done"
    /\ suite' = [suite EXCEPT !.cursor = @ + 1, !.result = Counted(@, result[1])]
    /\ pc' = "suite"
    /\ UNCHANGED <<config, args, paths, calls, result, runner>>

\* Line 852: the test raised, and nothing in run_all_tests catches it.
SuiteRaise ==
    /\ pc = "raised"
    /\ pc' = "suite_raised"
    /\ UNCHANGED <<config, args, paths, calls, result, suite, runner>>

\* Lines 863-865.
SuiteReturn ==
    /\ pc = "suite"
    /\ suite.cursor = Len(suite.base_rules)
    /\ pc' = "suite_done"
    /\ UNCHANGED <<config, args, paths, calls, result, suite, runner>>

NextSuite ==
    \/ SuiteStart
    \/ SuiteSkip
    \/ SuiteTest
    \/ ThreePathDispatch
    \/ ThreePathDirect(SuiteOutcomes)
    \/ ThreePathXform(SuiteOutcomes)
    \/ ThreePathRoundtrip(SuiteOutcomes)
    \/ SuiteRecord
    \/ SuiteRaise
    \/ SuiteReturn

SpecSuite == InitSuite /\ [][NextSuite]_vars

---------------------------------------------------------------------------
(* TestRunner.run_all_tests and main (src/tests/runner.py).                 *)

\* Lines 215-221.
test_suites ==
    <<"Smoke Tests", "Proxy Smoke Tests", "Adaptor Tests", "Differential Tests",
      "Backend Validation Tests">>

\* A TestRunResult (run_id, timestamp, config_source, duration_ms and
\* success_rate are left out: nothing that is modelled reads them).
TestRunResult(suite_name, total_tests, passed, failed, skipped, results, errors) ==
    [suite_name |-> suite_name, total_tests |-> total_tests, passed |-> passed,
     failed |-> failed, skipped |-> skipped, results |-> results, errors |-> errors]

\* What the run function of another suite may return: a test that passed,
\* a test that failed.
SuiteReports ==
    {[total_tests |-> 1, passed |-> 1, failed |-> 0, skipped |-> 0],
     [total_tests |-> 1, passed |-> 0, failed |-> 1, skipped |-> 0]}

\* Lines 163-177: run_differential_tests on what the suite returned.
DifferentialRun(suite_result) ==
    TestRunResult("Differential Tests", suite_result.total_tests, suite_result.passed,
                  suite_result.failed, suite_result.inconclusive, suite_result.results, <<>>)

InitRunner ==
    /\ rules \in SuiteRules(1)
    /\ providers = SuiteProviders
    /\ auth_token = Token
    /\ args = <<>>
    /\ pc = "main"
    /\ paths = <<>>
    /\ calls = <<>>
    /\ result = <<>>
    /\ suite = NoSuite
    /\ \E mode \in {"all", "differential"} : runner = [NoRunner EXCEPT !.mode = mode]

\* Lines 835-836: main with --all.
MainAll ==
    /\ pc = "main"
    /\ runner.mode = "all"
    /\ pc' = "runner"
    /\ UNCHANGED <<config, args, paths, calls, result, suite, runner>>

\* Lines 843-844: main with --differential.
MainDifferential ==
    /\ pc = "main"
    /\ runner.mode = "differential"
    /\ pc' = "suite_start"
    /\ UNCHANGED <<config, args, paths, calls, result, suite, runner>>

\* Lines 226-230.
Tallied(r) ==
    runner' = [runner EXCEPT
                 !.all_results = Append(@, <<r.suite_name, r>>),
                 !.total_tests = @ + r.total_tests,
                 !.total_passed = @ + r.passed,
                 !.total_failed = @ + r.failed,
                 !.total_skipped = @ + r.skipped,
                 !.position = @ + 1]

\* Lines 223-231: a suite other than the differential one ran.
RunnerOther ==
    /\ pc = "runner"
    /\ runner.position < Len(test_suites)
    /\ test_suites[runner.position + 1] # "Differential Tests"
    /\ \E report \in SuiteReports :
         Tallied(TestRunResult(test_suites[runner.position + 1], report.total_tests,
                               report.passed, report.failed, report.skipped, <<>>, <<>>))
    /\ UNCHANGED <<config, args, pc, paths, calls, result, suite>>

\* Line 225: the call of run_differential_tests.
RunnerDifferential ==
    /\ pc = "runner"
    /\ runner.position < Len(test_suites)
    /\ test_suites[runner.position + 1] = "Differential Tests"
    /\ pc' = "suite_start"
    /\ UNCHANGED <<config, args, paths, calls, result, suite, runner>>

\* Lines 225-231: run_differential_tests returned.
RunnerRecord ==
    /\ pc = "suite_done"
    /\ runner.mode = "all"
    /\ Tallied(DifferentialRun(suite.result))
    /\ pc' = "runner"
    /\ UNCHANGED <<config, args, paths, calls, result, suite>>

\* Lines 232-247: run_differential_tests raised.
RunnerCatch ==
    /\ pc = "suite_raised"
    /\ runner.mode = "all"
    /\ runner' = [runner EXCEPT
                    !.all_results =
                        Append(@, <<test_suites[runner.position + 1],
                                    TestRunResult(test_suites[runner.position + 1], 0, 0, 0, 0,
                                                  <<>>, <<ExceptionText>>)>>),
                    !.position = @ + 1]
    /\ pc' = "runner"
    /\ UNCHANGED <<config, args, paths, calls, result, suite>>

\* Line 860: sys.exit(1 if result.failed > 0 else 0)
Exited(run_result) ==
    /\ runner' = [runner EXCEPT !.result = <<run_result>>,
                                !.exit_code = <<IF run_result.failed > 0 THEN 1 ELSE 0>>]
    /\ pc' = "exited"

\* Lines 249-266 and 850-860: the aggregate, and the exit on it.
RunnerExit ==
    /\ pc = "runner"
    /\ runner.position = Len(test_suites)
    /\ Exited(TestRunResult("All Tests", runner.total_tests, runner.total_passed,
                            runner.total_failed, runner.total_skipped, runner.all_results,
                            <<>>))
    /\ UNCHANGED <<config, args, paths, calls, result, suite>>

\* Lines 844 and 850-860: --differential, the suite returned.
MainDifferentialExit ==
    /\ pc = "suite_done"
    /\ runner.mode = "differential"
    /\ Exited(DifferentialRun(suite.result))
    /\ UNCHANGED <<config, args, paths, calls, result, suite>>

\* Line 844: --differential, the suite raised; the interpreter ends an
\* uncaught exception with status 1.
MainCrash ==
    /\ pc = "suite_raised"
    /\ runner.mode = "differential"
    /\ runner' = [runner EXCEPT !.exit_code = <<1>>]
    /\ pc' = "exited"
    /\ UNCHANGED <<config, args, paths, calls, result, suite>>

NextRunner ==
    \/ MainAll
    \/ MainDifferential
    \/ RunnerOther
    \/ RunnerDifferential
    \/ SuiteStart
    \/ SuiteSkip
    \/ SuiteTest
    \/ ThreePathDispatch
    \/ ThreePathDirect(SuiteOutcomes)
    \/ ThreePathXform(SuiteOutcomes)
    \/ ThreePathRoundtrip(SuiteOutcomes)
    \/ SuiteRecord
    \/ SuiteRaise
    \/ SuiteReturn
    \/ RunnerRecord
    \/ RunnerCatch
    \/ RunnerExit
    \/ MainDifferentialExit
    \/ MainCrash

SpecRunner == InitRunner /\ [][NextRunner]_vars

---------------------------------------------------------------------------
(* ProxyClient.chat_completions_openai and messages_anthropic on their own. *)

\* The bodies a 200 response may decode to: no JSON, JSON that is no
\* object, objects with and without choices.
ClientBodies ==
    {NotJson, JNull, JInt(1), A, EmptyList, EmptyMap,
     JMap([id |-> JStr(<<"x">>), choices |-> JNull]),
     WithUsage(OpenAIBody(M, JList(<<Choice(Message(A))>>)), OpenAIUsage),
     WithUsage(AnthropicBody(M, JList(<<Block(A)>>)), AnthropicUsage)}

\* What the HTTP layer may do with a request.
ClientOutcomes ==
    {Http("exc", 0, <<>>, NotJson, msg) : msg \in {<<>>, <<"timed out">>}}
    \cup {Http("resp", 200, <<>>, body, <<>>) : body \in ClientBodies}
    \cup {Http("resp", status, text, NotJson, <<>>) :
            status \in {201, 404, 500}, text \in {<<>>, <<"E">>, LongText}}

InitClient ==
    /\ rules = <<>>
    /\ providers = <<>>
    /\ auth_token = Token
    /\ \E method \in {"chat_completions_openai", "messages_anthropic"},
          scenario \in {"", "openai"}, outcome \in ClientOutcomes :
         args = [method |-> method, scenario |-> scenario, model |-> "m", outcome |-> outcome]
    /\ pc = "start"
    /\ paths = <<>>
    /\ calls = <<>>
    /\ result = <<>>
    /\ suite = NoSuite
    /\ runner = NoRunner

\* The request is posted and the envelope returned.
ClientReturn(call) ==
    /\ calls' = <<call.request>>
    /\ result' = <<call.result>>
    /\ pc' = "done"

\* client.py, lines 678-738.
ClientOpenAI ==
    /\ pc = "start"
    /\ args.method = "chat_completions_openai"
    /\ ClientReturn(chat_completions_openai(auth_token, args.model, test_prompt, args.scenario,
                                            NoKwargs, args.outcome))
    /\ UNCHANGED <<config, args, paths, suite, runner>>

\* client.py, lines 740-799.
ClientAnthropic ==
    /\ pc = "start"
    /\ args.method = "messages_anthropic"
    /\ ClientReturn(messages_anthropic(auth_token, args.model, test_prompt, args.scenario,
                                       NoKwargs, args.outcome))
    /\ UNCHANGED <<config, args, paths, suite, runner>>

NextClient == ClientOpenAI \/ ClientAnthropic

SpecClient == InitClient /\ [][NextClient]_vars

---------------------------------------------------------------------------
(* Properties of test_three_path_for_provider (SpecThree).                  *)

AllRan == Len(paths) = 3
AllSucceeded == AllRan /\ \A i \in 1..3 : paths[i].result.success
SomeFailed == AllRan /\ \E i \in 1..3 : ~paths[i].result.success

\* The records a three-path result carries, and their contents.
ResultRecords(r) ==
    {r.baseline_response, r.comparison_response.xform, r.comparison_response.roundtrip}
HasNull(rec) == \E k \in {"model", "role", "finish_reason", "input_tokens",
                          "output_tokens", "content"} : rec[k].t = "null"
\* Whether the average of similarity(direct, xform) and similarity(direct,
\* roundtrip) reaches 7/10.
AverageAtLeastThreshold(r) ==
    LET sx == _calculate_similarity(r.baseline_response.content.v,
                                    r.comparison_response.xform.content.v)
        sr == _calculate_similarity(r.baseline_response.content.v,
                                    r.comparison_response.roundtrip.content.v)
    IN 10 * (sx[1] * sr[2] + sr[1] * sx[2]) >= 14 * sx[2] * sr[2]

\* C1: once the three rules resolved and the three paths succeeded, the
\* verdict is fail iff a difference was recorded; a missing_fields
\* difference is recorded iff a normalized record has a null field; with no
\* difference the verdict is pass iff the average of similarity(direct,
\* xform) and similarity(direct, roundtrip) is >= 0.7, and inconclusive iff
\* it is below.
C1_ThreePathVerdict ==
    (AllSucceeded /\ pc = "done") =>
        LET r == result[1]
            recorded == \E i \in 1..Len(r.differences) : r.differences[i].type = "missing_fields"
        IN /\ (r.verdict = "fail") <=> (r.differences # <<>>)
           /\ recorded <=> (\E rec \in ResultRecords(r) : HasNull(rec))
           /\ r.differences = <<>> =>
                /\ (r.verdict = "pass") <=> AverageAtLeastThreshold(r)
                /\ (r.verdict = "inconclusive") <=> ~AverageAtLeastThreshold(r)

\* A comparison of three good responses whose texts differ too much.
C1_Witness ==
    /\ AllSucceeded /\ pc = "done"
    /\ result[1].differences = <<>>
    /\ result[1].verdict = "inconclusive"
    /\ result[1].similarity_score[1] > 0

RECURSIVE FailingErrors(_)
FailingErrors(ps) ==
    IF ps = <<>> THEN <<>>
    ELSE LET p == Head(ps)
             own == IF p.result.success THEN <<>>
                    ELSE IF p.result.error.t = "str" /\ p.result.error.v # <<>>
                         THEN <<p.result.error.v>>
                         ELSE <<<<"request failed">>>>
         IN own \o FailingErrors(Tail(ps))

RECURSIVE Separated(_)
Separated(parts) ==
    IF Len(parts) <= 1 THEN Concat(parts)
    ELSE Head(parts) \o <<"; ">> \o Separated(Tail(parts))

\* C3: when a path of the three failed, the test returns (nothing is
\* raised) a result with verdict fail and passed false, whose error is the
\* errors of the failing paths and of no other, with no score and no
\* normalized record.
C3_ThreePathFailure ==
    SomeFailed =>
        /\ pc = "done"
        /\ result # <<>>
        /\ result[1].verdict = "fail"
        /\ ~result[1].passed
        /\ result[1].error = JStr(Separated(FailingErrors(paths)))
        /\ result[1].similarity_score = <<0, 1>>
        /\ result[1].baseline_response = <<>>
        /\ result[1].comparison_response = <<>>

\* Only the roundtrip path failed, with an error status.
C3_Witness ==
    /\ AllRan
    /\ paths[1].result.success /\ paths[2].result.success /\ ~paths[3].result.success
    /\ result # <<>> /\ result[1].error = JStr(<<"E">>)

Resolvable(request_model) ==
    \E i \in 1..Len(rules) : rules[i].active /\ rules[i].request_model = request_model

Dispatchable ==
    /\ Resolvable(args.base_model)
    /\ Resolvable(args.base_model \o "-xform")
    /\ Resolvable(args.base_model \o "-rt")

\* C6: when one of the three rules does not resolve to an active rule, the
\* result is inconclusive and no proxy call is issued.
C6_DispatchFailure ==
    ~Dispatchable =>
        /\ calls = <<>> /\ paths = <<>>
        /\ pc \in {"start", "done"}
        /\ pc = "done" => result # <<>> /\ result[1].verdict = "inconclusive"

\* The roundtrip rule is there but inactive, and the test has returned.
C6_Witness ==
    /\ pc = "done" /\ result # <<>> /\ result[1].verdict = "inconclusive"
    /\ Resolvable(args.base_model) /\ Resolvable(args.base_model \o "-xform")
    /\ \E i \in 1..Len(rules) : rules[i].request_model = args.base_model \o "-rt"

\* C10: of the three requests, the roundtrip path's carries the header
\* X-Tingly-Response-Roundtrip, naming the other dialect, and the direct
\* and xform requests do not.
C10_RoundtripHeader ==
    Len(calls) = 3 =>
        /\ RoundtripHeader \notin DOMAIN calls[1].headers
        /\ RoundtripHeader \notin DOMAIN calls[2].headers
        /\ RoundtripHeader \in DOMAIN calls[3].headers

---------------------------------------------------------------------------
(* Properties of the two roundtrip comparisons (SpecRound).                 *)

Failing(ps) == {i \in 1..Len(ps) : ~ps[i].result.success}

\* C2: in the roundtrip comparisons, when the proxy call of a path returns
\* success = false, the verdict is fail (neither inconclusive nor pass) and
\* the result carries the error of that path.
C2_FailedPathFails ==
    (pc = "done" /\ Failing(paths) # {}) =>
        /\ result[1].verdict = "fail"
        /\ \E i \in Failing(paths) : result[1].error = paths[i].result.error

BothSucceeded == Len(paths) = 2 /\ Failing(paths) = {}

\* What the comparison of two normalized responses has to say, the
\* similarity being that of their contents.
RoundtripVerdictIs(r, similarity) ==
    /\ (r.verdict = "pass") <=> (10 * similarity[1] >= 7 * similarity[2])
    /\ (r.verdict = "inconclusive") <=> (10 * similarity[1] < 7 * similarity[2])
    /\ (\E k \in 1..Len(r.differences) : r.differences[k].type = "content_similarity")
           <=> (10 * similarity[1] < 7 * similarity[2])

RoundtripVerdictOn(r, baseline, comparison) ==
    IF baseline.raised \/ comparison.raised
    THEN r.verdict = "inconclusive" /\ r.differences = <<>>
    ELSE RoundtripVerdictIs(r, _calculate_similarity(baseline.content.v, comparison.content.v))

\* C9: once both paths of a roundtrip comparison succeeded, the verdict is
\* pass iff the similarity of the two normalized contents is >= 0.7 and
\* inconclusive otherwise (so too when the normalization raises), never
\* fail; a content_similarity difference is recorded iff the similarity is
\* below 0.7.
C9_RoundtripVerdict ==
    (BothSucceeded /\ pc = "done") =>
        /\ result[1].verdict # "fail"
        /\ RoundtripVerdictOn(
               result[1],
               _normalize_response(OrElse(paths[1].result.raw_response, EmptyMap)),
               _normalize_response(OrElse(paths[2].result.raw_response, EmptyMap)))

\* Two good responses whose texts are alike, but not enough.
C9_Witness ==
    /\ BothSucceeded /\ pc = "done"
    /\ result[1].verdict = "inconclusive"
    /\ result[1].differences # <<>>
    /\ 2 * result[1].similarity_score[1] > result[1].similarity_score[2]

---------------------------------------------------------------------------
(* Properties of test_multi_provider_consistency (SpecMulti).               *)

\* The normalized contents of the successful responses, in call order.
Contents(responses) ==
    [i \in 1..Len(responses) |->
        _normalize_response(OrElse(responses[i].result.raw_response, EmptyMap))]

UnorderedPairs(n) == {pair \in (1..n) \X (1..n) : pair[1] < pair[2]}

PairSimilarity(normalized, pair) ==
    _calculate_similarity(normalized[pair[1]].content.v, normalized[pair[2]].content.v)

RECURSIVE SumOver(_, _)
SumOver(normalized, pairs) ==
    IF pairs = {} THEN <<0, 1>>
    ELSE LET pair == CHOOSE x \in pairs : TRUE
         IN FracAdd(PairSimilarity(normalized, pair), SumOver(normalized, pairs \ {pair}))

\* sum / count, as a fraction
MeanOver(normalized, pairs) ==
    Frac(SumOver(normalized, pairs)[1], SumOver(normalized, pairs)[2] * Cardinality(pairs))

\* least < mean - 1/5, for some pair (so for the least)
Flagged(normalized, pairs, mean) ==
    \E pair \in pairs :
        5 * PairSimilarity(normalized, pair)[1] * mean[2]
            < (5 * mean[1] - mean[2]) * PairSimilarity(normalized, pair)[2]

MultiVerdictIs(r, mean, flagged) ==
    /\ r.similarity_score = mean
    /\ (\E k \in 1..Len(r.differences) : r.differences[k].type = "minority_pair") <=> flagged
    /\ (r.verdict = "fail") <=> flagged
    /\ ~flagged => /\ (r.verdict = "pass") <=> (2 * mean[1] >= mean[2])
                   /\ (r.verdict = "inconclusive") <=> (2 * mean[1] < mean[2])

MultiVerdictOn(r, normalized, pairs) ==
    IF \E i \in 1..Len(normalized) : normalized[i].raised
    THEN r.verdict = "inconclusive" /\ r.differences = <<>>
    ELSE MultiVerdictIs(r, MeanOver(normalized, pairs),
                        Flagged(normalized, pairs, MeanOver(normalized, pairs)))

---------------------------------------------------------------------------
(* Properties of DifferentialTestSuite.run_all_tests (SpecSuite).           *)

\* The base rules whose provider is there (the tests that are scheduled)
\* and those whose provider is not.
Scheduled ==
    {i \in 1..Len(suite.base_rules) :
        get_provider_by_uuid(providers, ServiceProvider(suite.base_rules[i].services[1])) # <<>>}
Unresolved == (1..Len(suite.base_rules)) \ Scheduled

ResultsFor(i) ==
    {k \in 1..Len(suite.result.results) :
        suite.result.results[k].test_name = suite.base_rules[i].request_model \o "_three_path"}

\* C4: when a three-path test raises, the three-path tests of the other
\* target rules still run and their results are recorded: at the end of
\* the suite run, every scheduled rule but one whose test raised has a
\* result.
C4_SiblingsRun ==
    pc \in {"suite_done", "suite_raised"} =>
        \A i \in Scheduled :
            ResultsFor(i) # {} \/ (pc = "suite_raised" /\ i = suite.cursor + 1)

\* C7: at the end of the suite run, every target rule whose provider cannot
\* be resolved has an inconclusive result, counted in total_tests and in
\* inconclusive.
C7_UnresolvedInconclusive ==
    pc = "suite_done" =>
        /\ \A i \in Unresolved :
              \E k \in ResultsFor(i) : suite.result.results[k].verdict = "inconclusive"
        /\ suite.result.inconclusive >= Cardinality(Unresolved)
        /\ suite.result.total_tests >= Cardinality(Unresolved)

---------------------------------------------------------------------------
(* Properties of the runner (SpecRunner).                                   *)

\* A suite of the run ended with an exception.
Aborted ==
    \/ \E k \in 1..Len(runner.all_results) : runner.all_results[k][2].errors # <<>>
    \/ runner.mode = "differential" /\ runner.result = <<>>

\* A test of the run failed.
TestFailed ==
    \/ \E k \in 1..Len(runner.all_results) : runner.all_results[k][2].failed > 0
    \/ runner.mode = "differential" /\ suite.result.failed > 0

\* C5: the exit code is non-zero iff a test of the run failed, a suite
\* that ended with an exception counting as a failed test.
C5_ExitCode ==
    pc = "exited" => ((runner.exit_code[1] # 0) <=> (TestFailed \/ Aborted))

---------------------------------------------------------------------------
(* Properties of the proxy client (SpecClient).                             *)

Answer == args.outcome
Ok200 == Answer.kind = "resp" /\ Answer.status = 200
Parses == Answer.json.t # "invalid"

\* The body is a JSON object of which the method can take what it reads:
\* data.get(...), and for the OpenAI method len(data.get("choices", [])).
Readable ==
    /\ Answer.json.t = "map"
    /\ args.method = "chat_completions_openai"
          => Get(Answer.json, "choices", EmptyList).t \notin {"null", "int"}

Truncated(text) == IF Len(text) > ErrorCap THEN SubSeq(text, 1, ErrorCap) ELSE text

\* C11 as stated: the methods return an envelope with success = true iff
\* the status is 200 and the body parses as JSON.
C11_SuccessIffParses ==
    pc = "done" => (result[1].success <=> (Ok200 /\ Parses))

\* C11: both methods return an envelope whatever the HTTP layer does:
\* success = true iff the status is 200 and the body parses as a JSON
\* object the method can read (raw_response is then that object); any other
\* status gives success = false with the response text cut to 500
\* characters as error; an exception of the HTTP layer, a body that does
\* not parse or that the method cannot read gives success = false with the
\* exception's message as error.
C11_ClientEnvelope ==
    pc = "done" =>
        /\ result[1].success <=> (Ok200 /\ Parses /\ Readable)
        /\ result[1].success => result[1].raw_response = Answer.json /\ result[1].error = JNull
        /\ (Answer.kind = "resp" /\ Answer.status # 200)
              => ~result[1].success /\ result[1].error = JStr(Truncated(Answer.text))
        /\ Answer.kind = "exc" => ~result[1].success /\ result[1].error = JStr(Answer.msg)
        /\ (Ok200 /\ ~Parses) => ~result[1].success /\ result[1].error = JStr(JsonErrorText)
        /\ (Ok200 /\ Parses /\ ~Readable)
              => ~result[1].success /\ result[1].error.v \in {NoGetText, NoLenText}

\* A 200 response whose body is a JSON list: the envelope is a failure.
C11_Witness ==
    /\ pc = "done"
    /\ Ok200 /\ Answer.json = EmptyList
    /\ ~result[1].success

---------------------------------------------------------------------------
(* Normalization and the dialect of a path (SpecRound).                     *)

\* The keys of the other dialects' shapes, for a path of this style.
ForeignKeys(style) ==
    IF style = "openai" THEN {"content", "candidates"} ELSE {"choices", "candidates"}

\* The body without these keys.
Without(body, keys) == JMap([k \in (DOMAIN body.v) \ keys |-> body.v[k]])

\* The normalized content of the body a path returned is the one of the
\* same body without the keys of the other dialects.
DeclaredOnly(style, body, normalized) ==
    /\ ~_normalize_response(Without(body, ForeignKeys(style))).raised
    /\ normalized.content = _normalize_response(Without(body, ForeignKeys(style))).content

\* C12: the normalized content a comparison uses depends only on the fields
\* of the path's declared dialect: in a roundtrip comparison, the content
\* of a path's body is the content of the same body with the keys of the
\* other dialects' shapes taken away.
C12_DeclaredDialectOnly ==
    (pc = "done" /\ BothSucceeded /\ result[1].error = JNull) =>
        /\ DeclaredOnly(RoundtripTests[args.test].style,
                        OrElse(paths[1].result.raw_response, EmptyMap),
                        result[1].baseline_response)
        /\ DeclaredOnly(RoundtripTests[args.test].style,
                        OrElse(paths[2].result.raw_response, EmptyMap),
                        result[1].comparison_response)

---------------------------------------------------------------------------
(* _normalize_response_style on bodies whose optional parts are absent.     *)

\* A map with these keys of full, and no other.
Only(full, keys) == JMap([k \in keys |-> full[k]])

\* An OpenAI choice, with a message, a null message or none.
PartialChoices ==
    {Choice(Message(JStr(c))) : c \in Texts}
    \cup {Choice(JNull), JMap([index |-> JInt(0), finish_reason |-> JStr(<<"stop">>)])}

\* choices: a choice, an empty list, null; usage: there or null.  A body
\* has both keys, one, or none.
PartialOpenAIBodies ==
    {Only([model |-> M, choices |-> choices, usage |-> usage], keys) :
        choices \in {JList(<<ch>>) : ch \in PartialChoices} \cup {EmptyList, JNull},
        usage \in {OpenAIUsage, JNull},
        keys \in {{"model", "choices", "usage"}, {"model", "choices"}, {"model", "usage"},
                  {"model"}}}

\* Content blocks: text blocks, a block of another type, a text block
\* without text.
PartialBlocks == {Block(A), Block(JStr(<<"b">>)), ToolBlock, JMap([type |-> JStr(TextT)])}

PartialAnthropicBodies ==
    {Only([model |-> M, role |-> JStr(<<"assistant">>), content |-> content, usage |-> usage],
          keys) :
        content \in {JList(<<b>>) : b \in PartialBlocks}
                    \cup {JList(<<b1, b2>>) : b1 \in PartialBlocks, b2 \in PartialBlocks}
                    \cup {EmptyList, JNull},
        usage \in {AnthropicUsage, JNull},
        keys \in {{"model", "role", "content", "usage"}, {"model", "role", "content"},
                  {"model", "usage"}}}

InitNormalize ==
    /\ rules = <<>>
    /\ providers = <<>>
    /\ auth_token = Token
    /\ \E style \in {"openai", "anthropic"},
          response \in PartialOpenAIBodies \cup PartialAnthropicBodies :
         args = [style |-> style, response |-> response]
    /\ pc = "start"
    /\ paths = <<>>
    /\ calls = <<>>
    /\ result = <<>>
    /\ suite = NoSuite
    /\ runner = NoRunner

\* differential.py, lines 336-372.
Normalize ==
    /\ pc = "start"
    /\ result' = <<_normalize_response_style(args.style, args.response)>>
    /\ pc' = "done"
    /\ UNCHANGED <<config, args, paths, calls, suite, runner>>

NextNormalize == Normalize

SpecNormalize == InitNormalize /\ [][NextNormalize]_vars

\* The value under key is missing, null or empty.
Absent(body, key) == ~Has(body, key) \/ ~Truthy(body.v[key])

\* The texts of the blocks of type text, in order, one after the other.
RECURSIVE TextOf(_)
TextOf(blocks) ==
    IF blocks = <<>> THEN <<>>
    ELSE (IF Has(Head(blocks), "type") /\ Head(blocks).v["type"] = JStr(TextT)
             /\ Has(Head(blocks), "text")
          THEN Head(blocks).v["text"].v ELSE <<>>)
         \o TextOf(Tail(blocks))

OpenAIAbsent(body, r) ==
    /\ Absent(body, "choices")
          => r.content = EmptyText /\ r.role = EmptyText /\ r.finish_reason = EmptyText
    /\ (~Absent(body, "choices") /\ Absent(body.v["choices"].v[1], "message"))
          => r.content = EmptyText /\ r.role = EmptyText
    /\ Absent(body, "usage") => r.input_tokens = JNull /\ r.output_tokens = JNull

AnthropicAbsent(body, r) ==
    /\ r.content = JStr(IF Absent(body, "content") THEN <<>> ELSE TextOf(body.v["content"].v))
    /\ Absent(body, "usage") => r.input_tokens = JNull /\ r.output_tokens = JNull

\* C13: _normalize_response_style does not raise on a body whose optional
\* parts are absent.  For the openai style, choices missing, empty or null
\* give content, role and finish_reason '', a missing or null message gives
\* content and role '', a missing usage gives null token fields.  For the
\* anthropic style the content is the text of the blocks of type text, in
\* order, the other blocks being ignored, and a missing usage gives null
\* token fields.
C13_AbsentPartsYieldEmpty ==
    pc = "done" =>
        /\ ~result[1].raised
        /\ IF args.style = "openai" THEN OpenAIAbsent(args.response, result[1])
           ELSE AnthropicAbsent(args.response, result[1])

\* A tool block before a text block: only the text block's text is kept.
C13_Witness ==
    /\ pc = "done"
    /\ args.style = "anthropic"
    /\ Has(args.response, "content") /\ args.response.v["content"] = JList(<<ToolBlock, Block(A)>>)
    /\ ~Has(args.response, "usage")
    /\ result[1].content = A

---------------------------------------------------------------------------
(* BackendValidationTestSuite (src/tests/backend_validation.py): the field  *)
(* validator.                                                               *)

\* A FieldValidationIssue; actual is <<>> (None) or <<text>>.
FieldValidationIssue(field_path, issue_type, expected, actual, severity) ==
    [field_path |-> field_path, issue_type |-> issue_type, expected |-> expected,
     actual |-> actual, severity |-> severity]

\* type(value).__name__
TypeName(value) ==
    CASE value.t = "null" -> "NoneType"
      [] value.t = "map" -> "dict"
      [] OTHER -> value.t

\* isinstance(value, ...) as type_checks has it for a known type: a bool
\* is an int, and an int or a bool passes for a float.
TypeKnown(expected_type) ==
    expected_type \in {"str", "int", "float", "bool", "list", "dict", "str|list"}

type_checks(expected_type, value) ==
    CASE expected_type = "str" -> value.t = "str"
      [] expected_type = "int" -> value.t \in {"int", "bool"}
      [] expected_type = "float" -> value.t \in {"int", "bool", "float"}
      [] expected_type = "bool" -> value.t = "bool"
      [] expected_type = "list" -> value.t = "list"
      [] expected_type = "dict" -> value.t = "map"
      [] expected_type = "str|list" -> value.t \in {"str", "list"}

\* Lines 161-212.
_validate_field_type(value, expected_type, field_path) ==
    IF value.t = "null"
    THEN <<FieldValidationIssue(field_path, "invalid_value", "non-null " \o expected_type,
                                <<"null">>, "error")>>
    ELSE IF ~TypeKnown(expected_type) THEN <<>>
    ELSE (IF ~type_checks(expected_type, value)
          THEN <<FieldValidationIssue(field_path, "wrong_type", expected_type,
                                      <<TypeName(value)>>, "error")>>
          ELSE <<>>)
         \o (IF expected_type \in {"str", "list", "dict"} /\ ~Truthy(value)
             THEN <<FieldValidationIssue(field_path, "empty", "non-empty " \o expected_type,
                                         <<"empty " \o expected_type>>, "warning")>>
             ELSE <<>>)

\* Values of every JSON type, empty and not, and the declared types (one
\* of them unknown to type_checks).
FieldValues ==
    {JNull, EmptyText, A, JInt(0), JInt(1), JFloat(<<0, 1>>), JFloat(<<3, 2>>), JBool(FALSE),
     JBool(TRUE), EmptyList, JList(<<A>>), EmptyMap, JMap([k |-> A])}

ExpectedTypes == {"str", "int", "float", "bool", "list", "dict", "str|list", "number"}

InitFieldType ==
    /\ rules = <<>>
    /\ providers = <<>>
    /\ auth_token = Token
    /\ \E value \in FieldValues, expected_type \in ExpectedTypes :
         args = [value |-> value, expected_type |-> expected_type, field_path |-> "id"]
    /\ pc = "start"
    /\ paths = <<>>
    /\ calls = <<>>
    /\ result = <<>>
    /\ suite = NoSuite
    /\ runner = NoRunner

ValidateFieldType ==
    /\ pc = "start"
    /\ result' = <<_validate_field_type(args.value, args.expected_type, args.field_path)>>
    /\ pc' = "done"
    /\ UNCHANGED <<config, args, paths, calls, suite, runner>>

NextFieldType == ValidateFieldType

SpecFieldType == InitFieldType /\ [][NextFieldType]_vars

\* The value has the declared type (a whole number counts as a float).
HasDeclaredType(value, expected_type) ==
    CASE expected_type = "str" -> value.t = "str"
      [] expected_type = "int" -> value.t = "int"
      [] expected_type = "float" -> value.t \in {"int", "float"}
      [] expected_type = "bool" -> value.t = "bool"
      [] expected_type = "list" -> value.t = "list"
      [] expected_type = "dict" -> value.t = "map"
      [] expected_type = "str|list" -> value.t \in {"str", "list"}

\* The issues of this type and severity among issues.
IssuesOf(issues, issue_type, severity) ==
    {k \in 1..Len(issues) : issues[k].issue_type = issue_type /\ issues[k].severity = severity}

\* C15: for a value that is present, _validate_field_type emits one
\* invalid_value error and nothing else when the value is null; otherwise
\* one wrong_type error iff the value's type differs from the declared
\* one, and one empty warning iff the declared type is string, list or map
\* and the value is empty (false, as Python has it); and nothing else.
C15_FieldTypeIssues ==
    (pc = "done" /\ TypeKnown(args.expected_type)) =>
        IF args.value = JNull
        THEN /\ Len(result[1]) = 1
             /\ IssuesOf(result[1], "invalid_value", "error") = {1}
        ELSE /\ Cardinality(IssuesOf(result[1], "wrong_type", "error"))
                  = (IF HasDeclaredType(args.value, args.expected_type) THEN 0 ELSE 1)
             /\ Cardinality(IssuesOf(result[1], "empty", "warning"))
                  = (IF args.expected_type \in {"str", "list", "dict"} /\ ~Truthy(args.value)
                     THEN 1 ELSE 0)
             /\ Len(result[1]) = Cardinality(IssuesOf(result[1], "wrong_type", "error"))
                                 + Cardinality(IssuesOf(result[1], "empty", "warning"))

---------------------------------------------------------------------------
(* _validate_openai_response and _validate_anthropic_response.  A validator *)
(* returns its issues, or raises.                                           *)

OPENAI_REQUIRED_FIELDS == <<"id", "object", "created", "model", "choices">>
OPENAI_CHOICE_FIELDS == <<"index", "message", "finish_reason">>
OPENAI_MESSAGE_FIELDS == <<"role", "content">>
OPENAI_USAGE_FIELDS == <<"prompt_tokens", "completion_tokens", "total_tokens">>
ANTHROPIC_REQUIRED_FIELDS == <<"id", "type", "role", "content", "model", "stop_reason">>
ANTHROPIC_CONTENT_BLOCK_FIELDS == <<"type", "text">>
ANTHROPIC_USAGE_FIELDS == <<"input_tokens", "output_tokens">>

\* Lines 234-243 and 258-263: the type each field is checked for.
OpenAIFieldTypes ==
    [id |-> "str", object |-> "str", created |-> "int", model |-> "str", choices |-> "list"]
OpenAIChoiceTypes == [index |-> "int", message |-> "dict", finish_reason |-> "str"]

Issues(issues) == [raised |-> FALSE, issues |-> issues]

\* The issues of several checks in turn; an exception ends them all.
GatherIssues(rs) ==
    IF \E i \in 1..Len(rs) : rs[i].raised THEN Raised
    ELSE Issues(Concat([i \in 1..Len(rs) |-> rs[i].issues]))

MissingIssue(field, field_path, severity) ==
    FieldValidationIssue(field_path, "missing", "field '" \o field \o "' to be present", <<>>,
                         severity)

\* One turn of a loop over the fields of a container: `field not in
\* container` (a TypeError when the container has no membership), then
\* container[field] (a TypeError when it is a string or a list).
Checked(container, field, expected_type, field_path, severity) ==
    IF NoMembership(container) THEN Raised
    ELSE IF ~In(field, container) THEN Issues(<<MissingIssue(field, field_path, severity)>>)
    ELSE IF container.t # "map" THEN Raised
    ELSE Issues(_validate_field_type(container.v[field], expected_type, field_path))

\* value[0] of a value that is true: the first element, the first
\* character, or a KeyError or TypeError.
FirstOf(value) ==
    CASE value.t = "list" -> Returned(value.v[1])
      [] value.t = "str" -> Returned(JStr(<<value.v[1]>>))
      [] OTHER -> Raised

\* Lines 223-243.
OpenAIRequired(response) ==
    GatherIssues([i \in 1..Len(OPENAI_REQUIRED_FIELDS) |->
                    Checked(response, OPENAI_REQUIRED_FIELDS[i],
                            OpenAIFieldTypes[OPENAI_REQUIRED_FIELDS[i]],
                            OPENAI_REQUIRED_FIELDS[i], "error")])

\* Lines 266-278.
MessageFields(msg) ==
    GatherIssues([i \in 1..Len(OPENAI_MESSAGE_FIELDS) |->
                    Checked(msg, OPENAI_MESSAGE_FIELDS[i], "str",
                            "choices[0].message." \o OPENAI_MESSAGE_FIELDS[i], "error")])

\* Lines 249-278: one field of the choice; the message's fields are
\* checked after the message, whatever the message is.
ChoiceField(choice, field) ==
    IF field = "message" /\ choice.t = "map" /\ In("message", choice)
    THEN GatherIssues(<<Checked(choice, field, OpenAIChoiceTypes[field],
                                "choices[0]." \o field, "error"),
                        MessageFields(choice.v["message"])>>)
    ELSE Checked(choice, field, OpenAIChoiceTypes[field], "choices[0]." \o field, "error")

ChoiceFields(first) ==
    IF first.raised THEN Raised
    ELSE GatherIssues([i \in 1..Len(OPENAI_CHOICE_FIELDS) |->
                         ChoiceField(first.value, OPENAI_CHOICE_FIELDS[i])])

\* Lines 246-278.
OpenAIChoices(response) ==
    IF Has(response, "choices") /\ Truthy(response.v["choices"])
    THEN ChoiceFields(FirstOf(response.v["choices"]))
    ELSE Issues(<<>>)

\* Lines 281-292 and 343-354.
UsageFields(response, fields) ==
    IF Has(response, "usage")
    THEN GatherIssues([i \in 1..Len(fields) |->
                         Checked(response.v["usage"], fields[i], "int",
                                 "usage." \o fields[i], "warning")])
    ELSE Issues(<<>>)

\* Lines 214-294.
_validate_openai_response(response, model) ==
    GatherIssues(<<OpenAIRequired(response), OpenAIChoices(response),
                   UsageFields(response, OPENAI_USAGE_FIELDS)>>)

\* Lines 323-340.
ContentBlockFields(first) ==
    IF first.raised THEN Raised
    ELSE GatherIssues([i \in 1..Len(ANTHROPIC_CONTENT_BLOCK_FIELDS) |->
                         Checked(first.value, ANTHROPIC_CONTENT_BLOCK_FIELDS[i], "str",
                                 "content[0]." \o ANTHROPIC_CONTENT_BLOCK_FIELDS[i], "error")])

\* Lines 306-340: one required field; the first block of the content is
\* checked after the content.
AnthropicField(response, field) ==
    IF field = "content" /\ Has(response, "content")
    THEN GatherIssues(<<Issues(_validate_field_type(response.v["content"], "list", field)),
                        IF Truthy(response.v["content"])
                        THEN ContentBlockFields(FirstOf(response.v["content"]))
                        ELSE Issues(<<>>)>>)
    ELSE Checked(response, field, "str", field, "error")

\* Lines 305-340.
AnthropicRequired(response) ==
    GatherIssues([i \in 1..Len(ANTHROPIC_REQUIRED_FIELDS) |->
                    AnthropicField(response, ANTHROPIC_REQUIRED_FIELDS[i])])

\* Lines 296-356.
_validate_anthropic_response(response, model) ==
    GatherIssues(<<AnthropicRequired(response), UsageFields(response, ANTHROPIC_USAGE_FIELDS)>>)

---------------------------------------------------------------------------
(* The validators on their own: decoded bodies of both dialects with each  *)
(* part present, absent or of another shape.                               *)

Drop(body, key) == JMap([k \in (DOMAIN body.v) \ {key} |-> body.v[k]])
Put(body, key, value) == JMap((key :> value) @@ body.v)

ValidatorChoices ==
    {Choice(Message(A)), Choice(Message(JNull)), Choice(Message(EmptyText)),
     Choice(JNull), Choice(A), Choice(EmptyMap), Choice(Drop(Message(A), "role")),
     Drop(Choice(Message(A)), "index"), Drop(Choice(Message(A)), "message"),
     Drop(Choice(Message(A)), "finish_reason"), Put(Choice(Message(A)), "finish_reason", JNull),
     JNull, A, EmptyMap}

ValidatorBlocks ==
    {Block(A), Block(JNull), Block(EmptyText), ToolBlock, Drop(Block(A), "type"),
     Drop(Block(A), "text"), JNull, A, EmptyMap}

\* What `choices` and `content` may hold.
Collections(elements) ==
    {EmptyList, JNull, A, JInt(1), JBool(TRUE), JMap([k |-> A])}
    \cup {JList(<<x>>) : x \in elements}

\* What `usage` may hold.
Usages(usage, field) ==
    {usage, JNull, EmptyMap, A, JInt(1), Drop(usage, field), Put(usage, field, JNull)}

WithEach(bodies, usages) == bodies \cup {WithUsage(b, u) : b \in bodies, u \in usages}

\* A well-formed body less each of its fields in turn.
LessEach(body) == {Drop(body, k) : k \in DOMAIN body.v}

ValidatorOpenAIBodies ==
    WithEach({OpenAIBody(M, c) : c \in Collections(ValidatorChoices)},
             Usages(OpenAIUsage, "total_tokens"))
    \cup LessEach(OpenAIBody(M, JList(<<Choice(Message(A))>>)))
    \cup {EmptyMap, OpenAIBody(JNull, JList(<<Choice(Message(A))>>)),
          Put(OpenAIBody(M, JList(<<Choice(Message(A))>>)), "created", A)}

ValidatorAnthropicBodies ==
    WithEach({AnthropicBody(M, c) : c \in Collections(ValidatorBlocks)},
             Usages(AnthropicUsage, "output_tokens"))
    \cup LessEach(AnthropicBody(M, JList(<<Block(A)>>)))
    \cup {EmptyMap, AnthropicBody(JNull, JList(<<Block(A)>>))}

ValidatorBodies == ValidatorOpenAIBodies \cup ValidatorAnthropicBodies

InitValidate ==
    /\ args \in [format : {"openai", "anthropic"}, response : ValidatorBodies]
    /\ pc = "start" /\ result = <<>>
    /\ rules = <<>> /\ providers = <<>> /\ auth_token = Token /\ paths = <<>> /\ calls = <<>>
    /\ suite = NoSuite /\ runner = NoRunner

ValidateOpenAI ==
    /\ pc = "start" /\ args.format = "openai"
    /\ result' = <<_validate_openai_response(args.response, "m")>>
    /\ pc' = "done"
    /\ UNCHANGED <<rules, providers, auth_token, args, paths, calls, suite, runner>>

ValidateAnthropic ==
    /\ pc = "start" /\ args.format = "anthropic"
    /\ result' = <<_validate_anthropic_response(args.response, "m")>>
    /\ pc' = "done"
    /\ UNCHANGED <<rules, providers, auth_token, args, paths, calls, suite, runner>>

NextValidate == ValidateOpenAI \/ ValidateAnthropic

SpecValidate == InitValidate /\ [][NextValidate]_vars

\* C14: the validator returns a list of issues for every decoded body; it
\* never raises, whatever the shape of choices, of the first choice and its
\* message, of content and its first block, or of usage.
C14_ValidatorNeverRaises == pc = "done" => ~result[1].raised

\* The issues the validator handed back; none when it raised.
Emitted == IF result[1].raised THEN <<>> ELSE result[1].issues

IssuesAt(path) == SelectSeq(Emitted, LAMBDA i : i.field_path = path)

\* A value a field can be looked for in.
Searchable(value) == value.t \in {"map", "str", "list"}

First(value) == IF value.t \in {"list", "str"} /\ Truthy(value) THEN {FirstOf(value).value} ELSE {}

Under(body, key) == IF body.t = "map" /\ Has(body, key) THEN {body.v[key]} ELSE {}

Checklist(parent, fields, prefix, severity) ==
    [parent |-> parent, fields |-> fields, prefix |-> prefix, severity |-> severity]

\* The checklists of a dialect, each with the part of the body it is a
\* checklist of, where the body has that part.
Checklists(format, response) ==
    {Checklist(u, IF format = "openai" THEN OPENAI_USAGE_FIELDS ELSE ANTHROPIC_USAGE_FIELDS,
               "usage.", "warning") : u \in Under(response, "usage")}
    \cup
    IF format = "openai"
    THEN {Checklist(response, OPENAI_REQUIRED_FIELDS, "", "error")}
         \cup {Checklist(ch, OPENAI_CHOICE_FIELDS, "choices[0].", "error") :
                 ch \in UNION {First(c) : c \in Under(response, "choices")}}
         \cup {Checklist(msg, OPENAI_MESSAGE_FIELDS, "choices[0].message.", "error") :
                 msg \in UNION {Under(ch, "message") :
                                  ch \in UNION {First(c) : c \in Under(response, "choices")}}}
    ELSE {Checklist(response, ANTHROPIC_REQUIRED_FIELDS, "", "error")}
         \cup {Checklist(b, ANTHROPIC_CONTENT_BLOCK_FIELDS, "content[0].", "error") :
                 b \in UNION {First(c) : c \in Under(response, "content")}}

\* The field paths below a field path.
Children(path) ==
    CASE path = "choices" ->
           {"choices[0]." \o OPENAI_CHOICE_FIELDS[i] : i \in 1..Len(OPENAI_CHOICE_FIELDS)}
           \cup {"choices[0].message." \o OPENAI_MESSAGE_FIELDS[i] :
                   i \in 1..Len(OPENAI_MESSAGE_FIELDS)}
      [] path = "choices[0].message" ->
           {"choices[0].message." \o OPENAI_MESSAGE_FIELDS[i] :
              i \in 1..Len(OPENAI_MESSAGE_FIELDS)}
      [] path = "content" ->
           {"content[0]." \o ANTHROPIC_CONTENT_BLOCK_FIELDS[i] :
              i \in 1..Len(ANTHROPIC_CONTENT_BLOCK_FIELDS)}
      [] OTHER -> {}

UsagePaths ==
    {"usage." \o OPENAI_USAGE_FIELDS[i] : i \in 1..Len(OPENAI_USAGE_FIELDS)}
    \cup {"usage." \o ANTHROPIC_USAGE_FIELDS[i] : i \in 1..Len(ANTHROPIC_USAGE_FIELDS)}

\* The one issue of a field that is absent.
OnlyMissing(path, severity) ==
    /\ Len(IssuesAt(path)) = 1
    /\ IssuesAt(path)[1].issue_type = "missing"
    /\ IssuesAt(path)[1].severity = severity
    /\ \A c \in Children(path) : IssuesAt(c) = <<>>

AbsentFields(list) ==
    IF Searchable(list.parent)
    THEN {i \in 1..Len(list.fields) : ~In(list.fields[i], list.parent)}
    ELSE {}

MissingReported(response) ==
    /\ \A list \in Checklists(args.format, response) :
         \A i \in AbsentFields(list) :
            OnlyMissing(list.prefix \o list.fields[i], list.severity)
    /\ ~Has(response, "usage") => \A path \in UsagePaths : IssuesAt(path) = <<>>

\* C16: each field of the dialect's checklist that the body lacks has
\* exactly one issue, a 'missing' one, of severity error (warning for a
\* field of usage), and nothing below it is checked; a body without usage
\* has no usage issue.
C16_MissingFieldIssues == pc = "done" => MissingReported(args.response)

\* The same, of the runs in which the validator returns.
C16_WhenReturned == (pc = "done" /\ ~result[1].raised) => MissingReported(args.response)

---------------------------------------------------------------------------
(* test_backend_openai_format and test_backend_anthropic_format: one       *)
(* request through the proxy client, then the validator on its body.       *)

PathsOf(issues) == [k \in 1..Len(issues) |-> issues[k].field_path]

BackendValidationResult(client_style, model, passed, message, issues, raw_response, error) ==
    [client_style |-> client_style, test_type |-> client_style \o "_format_validation",
     model |-> model, passed |-> passed, message |-> message,
     missing_fields |-> PathsOf(SelectSeq(issues, LAMBDA i : i.issue_type = "missing")),
     invalid_fields |-> {<<i.field_path, i.expected>> :
                           i \in {issues[k] : k \in {k \in 1..Len(issues) :
                                                       issues[k].issue_type = "wrong_type"}}},
     field_issues |-> issues, raw_response |-> raw_response, error |-> error]

\* temperature=0.7, max_tokens=100
BackendKwargs == [temperature |-> <<7, 10>>, max_tokens |-> 100]

ErrorIssues(issues) == SelectSeq(issues, LAMBDA i : i.severity = "error")

\* Lines 396-418 and 472-494: the result once the validator is through,
\* and lines 420-432 and 496-508 when it raised.
BackendValidated(client_style, title, model, response, validated) ==
    IF validated.raised
    THEN BackendValidationResult(client_style, model, FALSE, <<"Exception during validation">>,
                                 <<>>, EmptyMap, JStr(ExceptionText))
    ELSE BackendValidationResult(client_style, model, Len(ErrorIssues(validated.issues)) = 0,
                                 <<title, Len(validated.issues), " issues found">>,
                                 validated.issues, response, JNull)

\* Lines 383-394 and 459-470.
BackendRequestFailed(client_style, model, envelope) ==
    BackendValidationResult(client_style, model, FALSE, <<"Request failed">>, <<>>, EmptyMap,
                            envelope.error)

\* Lines 358-432.
test_backend_openai_format(token, scenario, request_model, outcome) ==
    LET call == chat_completions_openai(token, request_model, test_prompt, scenario,
                                        BackendKwargs, outcome)
    IN [request |-> call.request,
        result |-> IF ~call.result.success
                   THEN BackendRequestFailed("openai", request_model, call.result)
                   ELSE BackendValidated("openai", "OpenAI format validation: ", request_model,
                                         OrElse(call.result.raw_response, EmptyMap),
                                         _validate_openai_response(
                                             OrElse(call.result.raw_response, EmptyMap),
                                             request_model))]

\* Lines 434-508.
test_backend_anthropic_format(token, scenario, request_model, outcome) ==
    LET call == messages_anthropic(token, request_model, test_prompt, scenario,
                                   BackendKwargs, outcome)
    IN [request |-> call.request,
        result |-> IF ~call.result.success
                   THEN BackendRequestFailed("anthropic", request_model, call.result)
                   ELSE BackendValidated("anthropic", "Anthropic format validation: ",
                                         request_model,
                                         OrElse(call.result.raw_response, EmptyMap),
                                         _validate_anthropic_response(
                                             OrElse(call.result.raw_response, EmptyMap),
                                             request_model))]

Hi == JStr(<<"hi">>)
ExampleOpenAI == OpenAIBody(M, JList(<<Choice(Message(Hi))>>))
ExampleAnthropic == AnthropicBody(M, JList(<<Block(Hi)>>))

\* What the proxy may answer a backend test with.
BackendOutcomes ==
    {Http("resp", 200, <<>>, body, <<>>) :
        body \in ValidatorBodies \cup {ExampleOpenAI, ExampleAnthropic, NotJson, EmptyList}}
    \cup {Http("exc", 0, <<>>, NotJson, <<"timed out">>),
          Http("resp", 500, <<"E">>, NotJson, <<>>)}

InitBackend ==
    /\ args \in [format : {"openai", "anthropic"}, scenario : {"openai", "anthropic"},
                 request_model : {"m"}, outcome : BackendOutcomes]
    /\ pc = "start" /\ result = <<>>
    /\ rules = <<>> /\ providers = <<>> /\ auth_token = Token /\ paths = <<>> /\ calls = <<>>
    /\ suite = NoSuite /\ runner = NoRunner

BackendReturn(test) ==
    /\ calls' = <<test.request>>
    /\ result' = <<test.result>>
    /\ pc' = "done"
    /\ UNCHANGED <<config, args, paths, suite, runner>>

\* Lines 538-539.
BackendOpenAI ==
    /\ pc = "start" /\ args.format = "openai"
    /\ BackendReturn(test_backend_openai_format(auth_token, args.scenario, args.request_model,
                                                args.outcome))

\* Lines 540-541.
BackendAnthropic ==
    /\ pc = "start" /\ args.format = "anthropic"
    /\ BackendReturn(test_backend_anthropic_format(auth_token, args.scenario,
                                                   args.request_model, args.outcome))

NextBackend == BackendOpenAI \/ BackendAnthropic

SpecBackend == InitBackend /\ [][NextBackend]_vars

\* The request of this run came back with HTTP 200 and a body the client
\* could read.
RequestSucceeded == ClientResult(args.outcome, args.format = "openai").success

\* C17: a backend test whose request succeeded passes exactly when its
\* response has no issue of severity error; warnings never fail it.
C17_PassIffNoErrorIssue ==
    (pc = "done" /\ RequestSucceeded)
        => (result[1].passed <=> ErrorIssues(result[1].field_issues) = <<>>)

\* The same, of the runs in which the validator returns.
C17_WhenReturned ==
    (pc = "done" /\ RequestSucceeded /\ result[1].message # <<"Exception during validation">>)
        => (result[1].passed <=> ErrorIssues(result[1].field_issues) = <<>>)

\* The two bodies without usage, each through its own dialect, pass.
C17_ExamplesPass ==
    (pc = "done" /\ args.outcome.status = 200
       /\ \/ args.format = "openai" /\ args.outcome.json = ExampleOpenAI
          \/ args.format = "anthropic" /\ args.outcome.json = ExampleAnthropic)
        => result[1].passed

---------------------------------------------------------------------------
(* ConfigLoader (src/tests/providers/config.py) and                        *)
(* TestAutomation._extract_providers (src/tests/test_automation.py).       *)

\* Most entries of one provider list of a configuration.
MaxEntries == 2

AuthTypes == {"api_key", "oauth"}

\* APIStyle(value) and AuthType(value): the member with this value, or a
\* ValueError.
EnumOf(members, value) ==
    IF value.t = "str" /\ Len(value.v) = 1 /\ value.v[1] \in members
    THEN Returned(value.v[1])
    ELSE Raised

\* data.get(key, default), and the default again when that is false.
GetOr(data, key, default) == OrElse(Get(data, key, default), default)

LoadedProvider(data, api_style, auth_type) ==
    [uuid |-> Get(data, "uuid", EmptyText), name |-> Get(data, "name", EmptyText),
     api_style |-> api_style, auth_type |-> auth_type]

\* Lines 48-76 (the entries carry no oauth_detail).
from_dict(data) ==
    IF EnumOf(APIStyles, GetOr(data, "api_style", JStr(<<"openai">>))).raised
       \/ EnumOf(AuthTypes, GetOr(data, "auth_type", JStr(<<"api_key">>))).raised
    THEN Raised
    ELSE Returned(LoadedProvider(data,
                      EnumOf(APIStyles, GetOr(data, "api_style", JStr(<<"openai">>))).value,
                      EnumOf(AuthTypes, GetOr(data, "auth_type", JStr(<<"api_key">>))).value))

\* provider.get("enabled") is False
Disabled(p) == Has(p, "enabled") /\ p.v["enabled"] = JBool(FALSE)

\* dict(p): a copy of a map, {} of an empty list or string, a TypeError or
\* ValueError of anything else an entry may be.
ToDict(p) ==
    CASE p.t = "map" -> Returned(p)
      [] p.t \in {"list", "str"} /\ p.v = <<>> -> Returned(EmptyMap)
      [] OTHER -> Raised

\* What a loop over entries has loaded.
Parsed(loaded) == [raised |-> FALSE, loaded |-> loaded]

\* The entries of several turns of a loop; an exception that is not caught
\* ends the load.
GatherParsed(rs) ==
    IF \E i \in 1..Len(rs) : rs[i].raised THEN Raised
    ELSE Parsed(Concat([i \in 1..Len(rs) |-> rs[i].loaded]))

\* Lines 194-202: the entry as a map; an entry that fails to parse is
\* warned about and left out.
JsonProviderOf(p) ==
    IF Disabled(p) THEN <<>>
    ELSE IF from_dict(IF ~Has(p, "api_style") \/ ~Truthy(p.v["api_style"])
                      THEN Put(p, "api_style", JStr(<<"openai">>)) ELSE p).raised
    THEN <<>>
    ELSE <<from_dict(IF ~Has(p, "api_style") \/ ~Truthy(p.v["api_style"])
                     THEN Put(p, "api_style", JStr(<<"openai">>)) ELSE p).value>>

\* Lines 190-204: one entry of a source.  When dict(p) raises, the handler
\* calls p.get('name'), an AttributeError of what is no map.
JsonProvider(p) ==
    IF ToDict(p).raised THEN Raised ELSE Parsed(JsonProviderOf(ToDict(p).value))

\* Lines 182-186.
provider_sources(data) ==
    (IF Has(data, "providers_v2") THEN <<data.v["providers_v2"]>> ELSE <<>>)
    \o (IF Has(data, "providers") THEN <<data.v["providers"]>> ELSE <<>>)

\* Lines 188-204.
JsonProviders(sources) ==
    GatherParsed([k \in 1..Len(sources) |->
                    GatherParsed([i \in 1..Len(sources[k].v) |->
                                    JsonProvider(sources[k].v[i])])])

\* Lines 264-269, of an entry that is a map.
YamlProviderOf(p) ==
    IF from_dict(Put(Put(p, "auth_type", Get(p, "auth_type", JStr(<<"api_key">>))),
                     "api_style", Get(p, "api_style", JStr(<<"openai">>)))).raised
    THEN <<>>
    ELSE <<from_dict(Put(Put(p, "auth_type", Get(p, "auth_type", JStr(<<"api_key">>))),
                         "api_style", Get(p, "api_style", JStr(<<"openai">>)))).value>>

\* Lines 264-269: p.get(...) of what is no map is an AttributeError, outside
\* the try.
YamlProvider(p) == IF p.t # "map" THEN Raised ELSE Parsed(YamlProviderOf(p))

\* Lines 261-269.
YamlProviders(data) ==
    IF Has(data, "providers")
    THEN GatherParsed([i \in 1..Len(data.v["providers"].v) |->
                         YamlProvider(data.v["providers"].v[i])])
    ELSE Parsed(<<>>)

\* Lines 209-221: one rule; r.get(...) of what is no map is an
\* AttributeError, which is caught and warned about.
LoadedRule(r) ==
    IF r.t # "map" THEN <<>>
    ELSE <<Rule(Get(r, "scenario", EmptyText), Get(r, "request_model", EmptyText),
                Get(r, "active", JBool(TRUE)), Get(r, "services", EmptyList))>>

\* Lines 206-221 and 271-286.
LoadedRules(data) ==
    IF Has(data, "rules")
    THEN Concat([i \in 1..Len(data.v["rules"].v) |-> LoadedRule(data.v["rules"].v[i])])
    ELSE <<>>

\* Lines 224-228.
LoadedServerUrl(data) ==
    IF Has(data, "server_url") THEN data.v["server_url"]
    ELSE IF Has(data, "ServerPort")
    THEN JStr(<<"http://localhost:" \o ToString(data.v["ServerPort"].v)>>)
    ELSE JStr(<<server_url>>)

\* Lines 231-237 (the token is a string).
LoadedAuthToken(data) ==
    IF ~Has(data, "model_token") THEN EmptyText
    ELSE IF Truthy(data.v["model_token"]) /\ ~StartsWith(data.v["model_token"].v, TokenPrefix)
    THEN JStr(TokenPrefix \o data.v["model_token"].v)
    ELSE data.v["model_token"]

LoadedTestConfig(parsed, loaded_rules, url, token, data) ==
    IF parsed.raised THEN Raised
    ELSE
    [raised |-> FALSE,
     providers |-> parsed.loaded, rules |-> loaded_rules, server_url |-> url,
     auth_token |-> token,
     test_model |-> Get(data, "test_model", EmptyText),
     test_prompt |-> Get(data, "test_prompt",
                         JStr(<<"Hello, this is a test. Please respond briefly.">>)),
     timeout |-> Get(data, "timeout", JInt(60)),
     verbose |-> Get(data, "verbose", JBool(FALSE)),
     output_dir |-> Get(data, "output_dir", JStr(<<"./test_results">>))]

\* Lines 175-249.
_load_json(data) ==
    LoadedTestConfig(JsonProviders(provider_sources(data)), LoadedRules(data),
                     LoadedServerUrl(data), LoadedAuthToken(data), data)

\* Lines 251-297.
_load_yaml(data) ==
    LoadedTestConfig(YamlProviders(data), LoadedRules(data), JStr(<<server_url>>), EmptyText,
                     data)

\* test_automation.py, lines 219-232.
_extract_providers(cfg) ==
    SelectSeq(IF Truthy(Get(cfg, "providers_v2", JNull)) THEN cfg.v["providers_v2"].v
              ELSE IF Truthy(Get(cfg, "providers", JNull)) THEN cfg.v["providers"].v
              ELSE <<>>,
              LAMBDA provider : ~Disabled(provider))

---------------------------------------------------------------------------
(* The loaders on their own, on configurations with a versioned and a      *)
(* legacy provider list.                                                   *)

Entry(name, fields) == JMap(("uuid" :> JStr(<<name>>)) @@ ("name" :> JStr(<<name>>)) @@ fields)

\* Provider entries: each dialect, no dialect, an empty, a null and an
\* unknown one, a disabled entry, an unknown auth_type.
Entries ==
    {Entry("a", [api_style |-> JStr(<<"openai">>), enabled |-> JBool(TRUE)]),
     Entry("b", [api_style |-> JStr(<<"anthropic">>)]),
     Entry("c", [api_style |-> JStr(<<"anthropic">>), enabled |-> JBool(FALSE)]),
     Entry("d", <<>>),
     Entry("e", [api_style |-> EmptyText]),
     Entry("f", [api_style |-> JNull]),
     Entry("g", [api_style |-> JStr(<<"mistral">>)]),
     Entry("h", [api_style |-> JStr(<<"google">>), auth_type |-> JStr(<<"bearer">>)])}

OtherEntries ==
    {Entry("l", [api_style |-> JStr(<<"openai">>)]),
     Entry("m", [api_style |-> JStr(<<"openai">>), enabled |-> JBool(FALSE)])}

RECURSIVE ListsOf(_, _)
ListsOf(elements, n) ==
    IF n = 0 THEN {<<>>}
    ELSE ListsOf(elements, n - 1)
         \cup {<<x>> \o l : x \in elements, l \in {l \in ListsOf(elements, n - 1) : Len(l) = n - 1}}

WithList(data, key, lists) == {data} \cup {Put(data, key, JList(l)) : l \in lists}

BaseData ==
    JMap([model_token |-> JStr(<<"k">>),
          rules |-> JList(<<JMap([scenario |-> JStr(<<"openai">>),
                                  request_model |-> JStr(<<"m">>)])>>)])

\* The configurations that are loaded.
ConfigData ==
    UNION {WithList(d, "providers", ListsOf(OtherEntries, MaxEntries)) :
             d \in WithList(BaseData, "providers_v2", ListsOf(Entries, MaxEntries))}
    \cup UNION {WithList(d, "providers_v2", ListsOf(OtherEntries, MaxEntries)) :
                  d \in WithList(BaseData, "providers", ListsOf(Entries, MaxEntries))}
    \cup {EmptyMap, JMap([server_url |-> JStr(<<"http://proxy">>), model_token |-> EmptyText]),
          JMap([ServerPort |-> JInt(8080), model_token |-> JStr(Token)])}

InitLoad ==
    /\ args \in [loader : {"json", "yaml", "extract"}, data : ConfigData]
    /\ pc = "start" /\ result = <<>>
    /\ rules = <<>> /\ providers = <<>> /\ auth_token = Token /\ paths = <<>> /\ calls = <<>>
    /\ suite = NoSuite /\ runner = NoRunner

Loaded(value) ==
    /\ result' = <<value>>
    /\ pc' = "done"
    /\ UNCHANGED <<config, args, paths, calls, suite, runner>>

\* Lines 164-165.
LoadJson == pc = "start" /\ args.loader = "json" /\ Loaded(_load_json(args.data))

\* Lines 166-167.
LoadYaml == pc = "start" /\ args.loader = "yaml" /\ Loaded(_load_yaml(args.data))

\* test_automation.py, line 184.
ExtractProviders ==
    pc = "start" /\ args.loader = "extract" /\ Loaded(_extract_providers(args.data))

NextLoad == LoadJson \/ LoadYaml \/ ExtractProviders

SpecLoad == InitLoad /\ [][NextLoad]_vars

\* The entries of a provider list of the configuration; none when the
\* configuration has no such list.
EntriesOf(data, key) ==
    IF Has(data, key) THEN {data.v[key].v[i] : i \in 1..Len(data.v[key].v)} ELSE {}

\* The names of the providers that were loaded.
LoadedNames ==
    IF args.loader = "extract"
    THEN {result[1][i].v["name"] : i \in 1..Len(result[1])}
    ELSE {result[1].providers[i].name : i \in 1..Len(result[1].providers)}

\* C18: of a configuration with a versioned and a legacy provider list,
\* the JSON loader and the provider extraction build providers from the
\* versioned entries only; legacy entries are used only when there is no
\* versioned entry.
C18_VersionedOnly ==
    (pc = "done" /\ args.loader \in {"json", "extract"}
       /\ EntriesOf(args.data, "providers_v2") # {})
        => \A p \in EntriesOf(args.data, "providers") : p.v["name"] \notin LoadedNames

\* The same, of the provider extraction alone.
C18_ExtractVersionedOnly ==
    (pc = "done" /\ args.loader = "extract" /\ EntriesOf(args.data, "providers_v2") # {})
        => \A p \in EntriesOf(args.data, "providers") : p.v["name"] \notin LoadedNames

\* C19: whatever loads the configuration, no provider whose entry has
\* enabled false is among the loaded providers.
C19_DisabledExcluded ==
    pc = "done"
        => \A p \in EntriesOf(args.data, "providers_v2") \cup EntriesOf(args.data, "providers") :
              Disabled(p) => p.v["name"] \notin LoadedNames

\* The same, of the JSON loader and the provider extraction.
C19_JsonDisabledExcluded ==
    (pc = "done" /\ args.loader # "yaml")
        => \A p \in EntriesOf(args.data, "providers_v2") \cup EntriesOf(args.data, "providers") :
              Disabled(p) => p.v["name"] \notin LoadedNames

\* The entries a loader reads.
ReadEntries ==
    IF args.loader = "yaml" THEN EntriesOf(args.data, "providers")
    ELSE EntriesOf(args.data, "providers_v2") \cup EntriesOf(args.data, "providers")

\* An entry with no api_style, an empty one, or a string that is no dialect.
NoKnownStyle(p) ==
    \/ ~Has(p, "api_style")
    \/ p.v["api_style"] = EmptyText
    \/ p.v["api_style"].t = "str" /\ EnumOf(APIStyles, p.v["api_style"]).raised

LoadedAsOpenAI(p) ==
    \E i \in 1..Len(result[1].providers) :
        /\ result[1].providers[i].name = p.v["name"]
        /\ result[1].providers[i].api_style = "openai"

\* C20: an enabled entry whose api_style is missing, empty or no known
\* dialect is loaded, with api_style openai.
C20_UnknownStyleIsOpenAI ==
    (pc = "done" /\ args.loader \in {"json", "yaml"})
        => \A p \in ReadEntries : (NoKnownStyle(p) /\ ~Disabled(p)) => LoadedAsOpenAI(p)

\* The same, of the entries whose api_style is missing or empty.
C20_MissingStyleIsOpenAI ==
    (pc = "done" /\ args.loader \in {"json", "yaml"})
        => \A p \in ReadEntries :
              ((~Has(p, "api_style") \/ p.v["api_style"] = EmptyText) /\ ~Disabled(p))
                  => LoadedAsOpenAI(p)

---------------------------------------------------------------------------
(* The loaders on configurations with entries that cannot be parsed.       *)

GoodRule == JMap([scenario |-> JStr(<<"openai">>), request_model |-> JStr(<<"m">>)])

\* A well-formed provider entry, one with an unknown dialect, and entries
\* that are no maps.
ParseEntries ==
    {Entry("a", [api_style |-> JStr(<<"openai">>)]),
     Entry("g", [api_style |-> JStr(<<"mistral">>)]),
     JNull, A, JInt(1), EmptyList, EmptyText}

ParseRules == {GoodRule, JNull, A}

ParseData ==
    {JMap((key :> JList(ps)) @@ ("rules" :> JList(rs))) :
        key \in {"providers", "providers_v2"},
        ps \in ListsOf(ParseEntries, MaxEntries), rs \in ListsOf(ParseRules, MaxEntries)}

InitParse ==
    /\ args \in [loader : {"json", "yaml"}, data : ParseData]
    /\ pc = "start" /\ result = <<>>
    /\ rules = <<>> /\ providers = <<>> /\ auth_token = Token /\ paths = <<>> /\ calls = <<>>
    /\ suite = NoSuite /\ runner = NoRunner

NextParse == LoadJson \/ LoadYaml

SpecParse == InitParse /\ [][NextParse]_vars

\* The well-formed entries of a list of the configuration.
WellFormed(data, key) == {p \in EntriesOf(data, key) : p.t = "map" /\ ~from_dict(p).raised}

\* The load returned, and every well-formed provider and rule it read is
\* in what it returned.
LoadedTheRest ==
    /\ ~result[1].raised
    /\ \A p \in WellFormed(args.data, "providers") \cup
                (IF args.loader = "json" THEN WellFormed(args.data, "providers_v2") ELSE {}) :
          \E i \in 1..Len(result[1].providers) : result[1].providers[i].name = p.v["name"]
    /\ Len(result[1].rules) = Cardinality({i \in 1..Len(args.data.v["rules"].v) :
                                             args.data.v["rules"].v[i].t = "map"})

\* C21: an entry that cannot be parsed, a map or not, never aborts the
\* load; it is left out and every well-formed provider and rule is loaded.
C21_LoadNeverAborts == pc = "done" => LoadedTheRest

\* The same, of configurations whose provider entries are all maps.
C21_WhenMaps ==
    (pc = "done" /\ \A p \in EntriesOf(args.data, "providers")
                              \cup EntriesOf(args.data, "providers_v2") : p.t = "map")
        => LoadedTheRest

---------------------------------------------------------------------------
(* _calculate_similarity and _count_tokens_estimate on their own.          *)

\* Longest content string the similarity is taken of.
MaxContent == 4

\* Longest text the tokens are estimated of.
MaxTokenText == 12

InitSimilarity ==
    /\ args \in [text1 : TextsUpTo(MaxContent), text2 : TextsUpTo(MaxContent)]
    /\ pc = "start" /\ result = <<>>
    /\ rules = <<>> /\ providers = <<>> /\ auth_token = Token /\ paths = <<>> /\ calls = <<>>
    /\ suite = NoSuite /\ runner = NoRunner

Similarity ==
    /\ pc = "start"
    /\ result' = <<_calculate_similarity(args.text1, args.text2)>>
    /\ pc' = "done"
    /\ UNCHANGED <<config, args, paths, calls, suite, runner>>

NextSimilarity == Similarity

SpecSimilarity == InitSimilarity /\ [][NextSimilarity]_vars

\* Texts of one character, of every length up to n.
Repeated(n) == {[i \in 1..k |-> c] : k \in 0..n, c \in Chars}

InitTokens ==
    /\ args \in [text1 : Repeated(MaxTokenText), text2 : Repeated(MaxTokenText)]
    /\ pc = "start" /\ result = <<>>
    /\ rules = <<>> /\ providers = <<>> /\ auth_token = Token /\ paths = <<>> /\ calls = <<>>
    /\ suite = NoSuite /\ runner = NoRunner

CountTokens ==
    /\ pc = "start"
    /\ result' = <<_count_tokens_estimate(args.text1), _count_tokens_estimate(args.text2)>>
    /\ pc' = "done"
    /\ UNCHANGED <<config, args, paths, calls, suite, runner>>

NextTokens == CountTokens

SpecTokens == InitTokens /\ [][NextTokens]_vars

\* C22: the similarity of two content strings is the same in both orders,
\* and lies between 0 and 1.
C22_SymmetricBounded ==
    pc = "done"
        => /\ result[1] = _calculate_similarity(args.text2, args.text1)
           /\ FracGeq(result[1], <<0, 1>>) /\ FracGeq(<<1, 1>>, result[1])

\* The bounds alone.
C22_Bounded ==
    pc = "done" => FracGeq(result[1], <<0, 1>>) /\ FracGeq(<<1, 1>>, result[1])

\* C23: the similarity is 1 of two empty strings, 0 when exactly one is
\* empty, and 1 of a string and itself.
C23_EmptyAndIdentical ==
    pc = "done"
        => /\ (args.text1 = <<>> /\ args.text2 = <<>>) => result[1] = <<1, 1>>
           /\ ((args.text1 = <<>>) # (args.text2 = <<>>)) => result[1] = <<0, 1>>
           /\ args.text1 = args.text2 => result[1] = <<1, 1>>

C23_Witness ==
    pc = "done" /\ args.text1 = args.text2 /\ Len(args.text1) = MaxContent
        /\ result[1] = <<1, 1>>

\* n is len // 4, and 1 where that is 0.
FloorOrOne(n, len) == IF len < 4 THEN n = 1 ELSE 4 * n <= len /\ len < 4 * (n + 1)

\* C24: the token estimate is max(1, len(text) // 4): never below 1, and
\* no smaller for a longer text.
C24_TokenEstimate ==
    pc = "done"
        => /\ FloorOrOne(result[1], Len(args.text1)) /\ FloorOrOne(result[2], Len(args.text2))
           /\ result[1] >= 1 /\ result[2] >= 1
           /\ Len(args.text1) <= Len(args.text2) => result[1] <= result[2]

C24_Witness ==
    pc = "done" /\ args.text1 = <<>> /\ result[1] = 1 /\ Len(args.text2) >= 8 /\ result[2] = 2

---------------------------------------------------------------------------
(* Properties of the results as records (SpecMulti, SpecSuite, SpecThree).  *)

\* The token fields are the estimates of the two contents the result
\* carries, and their distance.
TokensOf(r, baseline, comparison) ==
    /\ r.baseline_tokens = _count_tokens_estimate(baseline) /\ r.baseline_tokens >= 1
    /\ r.comparison_tokens = _count_tokens_estimate(comparison) /\ r.comparison_tokens >= 1
    /\ r.token_difference = Abs(r.baseline_tokens - r.comparison_tokens)

\* C25: a result that was scored carries the token estimates of its
\* baseline and comparison contents, each 1 at least, and their absolute
\* difference; here of the multi-provider comparison.
C25_TokenFields ==
    (pc = "done" /\ Len(Responses(paths)) >= 2 /\ result[1].error = JNull)
        => TokensOf(result[1], result[1].baseline_response.content.v,
                    result[1].comparison_response.content.v)

\* The counts of a suite result.
Counts(sr) == <<sr.total_tests, sr.passed, sr.failed, sr.inconclusive>>

\* The results folded into an empty suite result one after the other.
RECURSIVE Fold(_)
Fold(rs) ==
    IF rs = <<>> THEN SuiteResult
    ELSE Counted(Fold(SubSeq(rs, 1, Len(rs) - 1)), rs[Len(rs)])

\* The results in every order.
Reordered(rs) == {[i \in 1..Len(rs) |-> rs[f[i]]] : f \in Permutations(1..Len(rs))}

\* How many of the results are such.
HowMany(rs, Such(_)) == Cardinality({k \in 1..Len(rs) : Such(rs[k])})

IsPassed(r) == r.passed
IsInconclusive(r) == ~r.passed /\ r.verdict = "inconclusive"
IsFailed(r) == ~r.passed /\ r.verdict # "inconclusive"

\* C26: each result folded into the suite result counts as exactly one of
\* passed, failed and inconclusive, by what it is alone: the total is the
\* sum of the three and the number of results, and folding the same results
\* in any other order gives the same counts.
C26_FoldCounts ==
    LET sr == suite.result
    IN /\ sr.total_tests = Len(sr.results)
       /\ sr.total_tests = sr.passed + sr.failed + sr.inconclusive
       /\ sr.passed = HowMany(sr.results, IsPassed)
       /\ sr.inconclusive = HowMany(sr.results, IsInconclusive)
       /\ sr.failed = HowMany(sr.results, IsFailed)
       /\ \A rs \in Reordered(sr.results) : Counts(Fold(rs)) = Counts(sr)

\* A suite result of a result that passed and, after it, one that did not.
C26_Witness ==
    /\ Len(suite.result.results) = 2
    /\ suite.result.results[1].passed
    /\ ~suite.result.results[2].passed
    /\ suite.result.passed = 1

PostedAs(i) ==
    IF calls[i].url = server_url \o "/tingly/" \o paths[i].scenario \o "/chat/completions"
    THEN "openai"
    ELSE IF calls[i].url = server_url \o "/tingly/" \o paths[i].scenario \o "/messages"
         THEN "anthropic" ELSE "neither"

\* C28: when the three rules resolve, the proxy is called exactly three
\* times, for the direct, the xform and the roundtrip path in this order,
\* and no verdict is there before the third call, whether or not an earlier
\* path failed; the roundtrip path has the dialect of the direct path and
\* the xform path the other one.
C28_ThreeCallsInOrder ==
    Dispatchable =>
        /\ Len(calls) = Len(paths) /\ Len(paths) <= 3
        /\ \A i \in 1..Len(paths) : paths[i].name = <<"direct", "xform", "roundtrip">>[i]
        /\ pc \in {"done", "raised"} => Len(calls) = 3
        /\ result # <<>> => Len(calls) = 3
        /\ Len(paths) = 3 =>
              /\ paths[3].style = paths[1].style
              /\ paths[2].style # paths[1].style
              /\ \A i \in 1..3 : PostedAs(i) = paths[i].style
              /\ {paths[1].style, paths[2].style} = {"openai", "anthropic"}

\* The direct path failed, and the other two calls were made all the same
\* before the test returned.
C28_Witness ==
    /\ Dispatchable /\ pc = "done" /\ result # <<>>
    /\ Len(calls) = 3
    /\ ~paths[1].result.success
    /\ paths[2].result.success

\* passed says the same as verdict, and verdict is one of the three.
Sound(r) ==
    /\ r.verdict \in {"pass", "fail", "inconclusive"}
    /\ r.passed <=> r.verdict = "pass"

IsVerdictPass(r) == r.verdict = "pass"

C29_EachTest == result # <<>> => Sound(result[1])

OfOnePair(r, normalized) ==
    IF normalized[1].raised \/ normalized[2].raised
    THEN r.verdict = "inconclusive"
    ELSE /\ r.similarity_score = PairSimilarity(normalized, <<1, 2>>)
         /\ r.verdict = "pass" <=> FracGeq(PairSimilarity(normalized, <<1, 2>>), <<1, 2>>)
         /\ r.verdict = "inconclusive" <=> FracLess(PairSimilarity(normalized, <<1, 2>>), <<1, 2>>)

\* C30: a multi-provider comparison of exactly two successful responses
\* never ends in fail and flags no minority: its verdict is pass iff the
\* similarity of the two contents is >= 0.5 and inconclusive otherwise;
\* with fewer than two successful responses it is inconclusive.
C30_TwoNeverFail ==
    pc = "done" =>
        /\ Len(Responses(paths)) < 2 => result[1].verdict = "inconclusive"
        /\ Len(Responses(paths)) = 2 =>
              /\ result[1].verdict # "fail"
              /\ result[1].differences = <<>>
              /\ OfOnePair(result[1], Contents(Responses(paths)))

\* Three providers were asked, one call failed, and the two answers are
\* unlike each other: the comparison is inconclusive.
C30_Witness ==
    /\ pc = "done"
    /\ Len(paths) = 3
    /\ Len(Responses(paths)) = 2
    /\ result[1].error = JNull
    /\ result[1].similarity_score = <<0, 1>>
    /\ result[1].verdict = "inconclusive"

====
